---- MODULE Spec2Model ----
(***************************************************************************)
(* A model of the codecrafters Kafka server.                               *)
(*                                                                         *)
(*  - the wire codec (decode.rs, encode.rs, common_struct.rs) as operators *)
(*    on byte sequences; a decoder takes the buffer and the cursor         *)
(*    position (bytes consumed so far) and returns                         *)
(*        [st |-> "ok", val, pos]   a value and the new position           *)
(*        [st |-> "incomplete"]     DecodeError::Incomplete                *)
(*        [st |-> "other"]          DecodeError::Other (fatal)             *)
(*        [st |-> "panic"]          assert! / unimplemented! / expect      *)
(*  - the connection task of main.rs / connection.rs, one step per         *)
(*    suspension point (Spec, SpecParse);                                  *)
(*  - the handlers of api_versions.rs, describe_topic_partitions.rs and    *)
(*    fetch.rs run by tasks that share the mutex-guarded indices           *)
(*    (HandlerSpec).                                                       *)
(***************************************************************************)
EXTENDS Integers, Sequences, FiniteSets, TLC

VARIABLES
    listener,     \* main: "start" before TcpListener::bind, "listening" in the accept loop
    indexInit,    \* init_read_metadata_log: "not_run", "decoding", "loading", or its
                  \* outcome "ok" | "failed" | "panicked"
    logFileExists,\* whether the controller log file exists on disk
    script,       \* per connection: the chunks the peer sends, one per socket read
    delivered,    \* per connection: number of chunks already read from the socket
    pc,           \* per connection: position of its task in process()
    buffer,       \* per connection: Connection.buffer
    request,      \* per connection: the request read_request returned last
    response,     \* per connection: the response execute_request returned last
    served,       \* per connection: requests returned by read_request, in order
    out,          \* per connection: byte strings written and flushed to the socket
    hpc,          \* per handler task: position inside the handler
    hreq,         \* per handler task: the decoded request (header and body)
    hidx,         \* per handler task: loop indices and the response under construction
    hresp,        \* per handler task: <<>> or the response the handler returned
    lockHolder,   \* per index mutex: the task holding it, or 0
    poisoned,     \* per index mutex: whether a holder panicked (std::sync::Mutex poisoning)
    TOPIC_PARTITIONS,   \* index name -> TopicInfo
    TOPIC_ID_NAME_MAP,  \* index topic id -> name
    files,        \* partition log files that can be read: (name, partition) -> batches
    codec,        \* a value taken through Encode::encode and Decode::decode
    metadataLog   \* init_read_metadata_log: the file's bytes, the cursor position,
                  \* record_batches, and the batch init_topic_partitions is at

connVars == <<script, delivered, pc, buffer, request, response, served, out>>
handlerVars == <<hpc, hreq, hidx, hresp, lockHolder, poisoned,
                 TOPIC_PARTITIONS, TOPIC_ID_NAME_MAP, files>>
vars == <<listener, indexInit, logFileExists, connVars, handlerVars, codec, metadataLog>>

\* ------------------------------------------------------------------ bounds

\* number of client connections
NumConns == 2

\* longest string, byte string and array of which every value is encoded
MaxLen == 2

Conns == 1..NumConns

\* ------------------------------------------------------------ decode results

Ok(v, p) == [st |-> "ok", val |-> v, pos |-> p]

\* the `?` operator: an error is returned as it is, a value is passed on to F
Then(r, F(_)) == IF r.st # "ok" THEN r ELSE F(r)
Incomplete == [st |-> "incomplete"]
Other == [st |-> "other"]
Panic == [st |-> "panic"]

\* the bytes of buf from cursor position pos (0-based) on
Rest(buf, pos) == SubSeq(buf, pos + 1, Len(buf))

\* Buf::remaining of a cursor at pos
Remaining(buf, pos) == Len(buf) - pos

\* ------------------------------------------- fixed-width integers (big-endian)

u8_encode(n) == <<n>>

u16_encode(n) == <<n \div 256, n % 256>>

i16_encode(n) == u16_encode((n + 65536) % 65536)

i8_encode(n) == <<(n + 256) % 256>>

\* values below 2^31 only: message sizes of the model are small
u32_encode(n) ==
    <<n \div 16777216, (n \div 65536) % 256, (n \div 256) % 256, n % 256>>

i32_encode(n) ==
    IF n >= 0 THEN u32_encode(n)
    ELSE LET m == (n + 2147483647) + 1
         IN  <<128 + (m \div 16777216), (m \div 65536) % 256, (m \div 256) % 256, m % 256>>

u8_decode(buf, pos) ==
    IF Remaining(buf, pos) < 1 THEN Incomplete
    ELSE Ok(buf[pos + 1], pos + 1)

i8_decode(buf, pos) ==
    IF Remaining(buf, pos) < 1 THEN Incomplete
    ELSE Ok(IF buf[pos + 1] >= 128 THEN buf[pos + 1] - 256 ELSE buf[pos + 1], pos + 1)

u16_decode(buf, pos) ==
    IF Remaining(buf, pos) < 2 THEN Incomplete
    ELSE Ok(buf[pos + 1] * 256 + buf[pos + 2], pos + 2)

i16_decode(buf, pos) ==
    IF Remaining(buf, pos) < 2 THEN Incomplete
    ELSE LET u == buf[pos + 1] * 256 + buf[pos + 2]
         IN  Ok(IF u >= 32768 THEN u - 65536 ELSE u, pos + 2)

i32_decode(buf, pos) ==
    IF Remaining(buf, pos) < 4 THEN Incomplete
    ELSE LET hi == IF buf[pos + 1] >= 128 THEN buf[pos + 1] - 256 ELSE buf[pos + 1]
         IN  Ok(hi * 16777216 + buf[pos + 2] * 65536 + buf[pos + 3] * 256 + buf[pos + 4],
                pos + 4)

\* the number whose big-endian digits are the bytes b after the digits of acc
RECURSIVE from_be_bytes(_, _)
from_be_bytes(b, acc) ==
    IF b = <<>> THEN acc ELSE from_be_bytes(Tail(b), acc * 256 + Head(b))

\* i64::from_be_bytes; an i64 is modelled by its eight big-endian bytes
i64_decode(buf, pos) ==
    IF Remaining(buf, pos) < 8 THEN Incomplete
    ELSE Ok(SubSeq(buf, pos + 1, pos + 8), pos + 8)

\* a Uuid is its value as a 128-bit big-endian number, read from 16 bytes; the
\* ids of the model have their high bytes 00
Uuid_decode(buf, pos) ==
    IF Remaining(buf, pos) < 16 THEN Incomplete
    ELSE Ok(from_be_bytes(SubSeq(buf, pos + 1, pos + 16), 0), pos + 16)

\* the 16 bytes of a Uuid; the ids of the model are below 2^31
Uuid_encode(id) == [k \in 1..12 |-> 0] \o u32_encode(id)

\* the frames of the model keep message_size below 2^31
u32_decode(buf, pos) ==
    IF Remaining(buf, pos) < 4 THEN Incomplete
    ELSE Ok(buf[pos + 1] * 16777216 + buf[pos + 2] * 65536 + buf[pos + 3] * 256
            + buf[pos + 4], pos + 4)

\* ------------------------------------------------------------------- UTF-8

IsCont(b) == b >= 128 /\ b <= 191

\* the length of the UTF-8 sequence a byte begins; 0 for a byte that begins none
Utf8Width(b) ==
    IF b < 128 THEN 1
    ELSE IF b >= 194 /\ b <= 223 THEN 2
    ELSE IF b >= 224 /\ b <= 239 THEN 3
    ELSE IF b >= 240 /\ b <= 244 THEN 4
    ELSE 0

\* the sequence begun by the byte at index i is whole and well-formed: its
\* continuation bytes are there, and it is not overlong, a surrogate or
\* beyond U+10FFFF
Utf8SequenceAt(s, i) ==
    /\ Utf8Width(s[i]) > 0
    /\ i + Utf8Width(s[i]) - 1 <= Len(s)
    /\ \A k \in 1..(Utf8Width(s[i]) - 1) : IsCont(s[i + k])
    /\ (s[i] = 224 => s[i + 1] >= 160)
    /\ (s[i] = 237 => s[i + 1] <= 159)
    /\ (s[i] = 240 => s[i + 1] >= 144)
    /\ (s[i] = 244 => s[i + 1] <= 143)

\* String::from_utf8: whether the bytes of s from index i on are well-formed
\* UTF-8: every byte begins a well-formed sequence or continues the sequence
\* begun up to three bytes before it
from_utf8_ok(s, i) ==
    \A j \in i..Len(s) :
        IF IsCont(s[j])
        THEN \E k \in 1..3 :
                /\ j - k >= i
                /\ Utf8Width(s[j - k]) > k
                /\ \A m \in 1..(k - 1) : IsCont(s[j - m])
        ELSE Utf8SequenceAt(s, j)

\* an io::Error converted to DecodeError::Other
io_error_as_other == [st |-> "other"]

\* impl From<std::io::Error> for DecodeError: the error of a short read_exact
\* becomes DecodeError::Incomplete
read_exact_incomplete_error == Incomplete

\* Read::read_exact of n bytes followed by String::from_utf8; invalid UTF-8 is
\* FromUtf8Error, converted to DecodeError::Other
read_utf8(buf, pos, n) ==
    IF Remaining(buf, pos) < n THEN read_exact_incomplete_error
    ELSE IF from_utf8_ok(SubSeq(buf, pos + 1, pos + n), 1)
         THEN Ok(SubSeq(buf, pos + 1, pos + n), pos + n)
         ELSE Other

\* ------------------------------------------------------------------ VarInt

\* a VarInt is its byte sequence (struct VarInt { bytes })
\* VarInt::decode: bytes are taken while the top bit is set
RECURSIVE VarInt_decode_loop(_, _, _)
VarInt_decode_loop(buf, pos, bytes) ==
    Then(u8_decode(buf, pos),
         LAMBDA r : IF r.val \div 128 = 1
                    THEN VarInt_decode_loop(buf, r.pos, Append(bytes, r.val))
                    ELSE Ok(Append(bytes, r.val), r.pos))

VarInt_decode(buf, pos) == VarInt_decode_loop(buf, pos, <<>>)

\* VarInt::as_u64: the 7-bit payloads, least significant group first
\* (the model's varints are at most 4 bytes long, so no bit is shifted out)
RECURSIVE VarInt_as_u64(_)
VarInt_as_u64(bytes) ==
    IF bytes = <<>> THEN 0
    ELSE (bytes[1] % 128) + 128 * VarInt_as_u64(Tail(bytes))

\* VarInt::from_u64
RECURSIVE VarInt_from_u64(_)
VarInt_from_u64(n) ==
    IF n \div 128 = 0 THEN <<n % 128>>
    ELSE <<128 + (n % 128)>> \o VarInt_from_u64(n \div 128)

\* zigzag_encode_64bit, on the values of the model (far from the i64 limits)
zigzag_encode_64bit(n) == IF n >= 0 THEN 2 * n ELSE -2 * n - 1

\* zigzag_decode_64bit
zigzag_decode_64bit(n) == IF n % 2 = 0 THEN n \div 2 ELSE -((n + 1) \div 2)

\* VarInt::from_i64
VarInt_from_i64(n) == VarInt_from_u64(zigzag_encode_64bit(n))

\* VarInt::as_i64
VarInt_as_i64(bytes) == zigzag_decode_64bit(VarInt_as_u64(bytes))

\* -------------------------------------------------- VarInt at the full width

\* a u64 or an i64 at its full width is its 64 bits, the least significant first
U64_BITS == 64

VARINTS_MASK == 127

PAY_LOAD_BIT_NUM == 7

\* the u64 of a number below 2^31
u64_from(v) == [i \in 1..U64_BITS |-> IF i <= 31 THEN (v \div 2 ^ (i - 1)) % 2 ELSE 0]

\* n << k and n >> k on a u64, n >> k on an i64 (arithmetic), the bits shifted
\* out are lost
shl(n, k) == [i \in 1..U64_BITS |-> IF i > k THEN n[i - k] ELSE 0]

shr(n, k) == [i \in 1..U64_BITS |-> IF i + k <= U64_BITS THEN n[i + k] ELSE 0]

sar(n, k) == [i \in 1..U64_BITS |-> IF i + k <= U64_BITS THEN n[i + k] ELSE n[U64_BITS]]

\* a ^ b and a | b
bitxor(a, b) == [i \in 1..U64_BITS |-> (a[i] + b[i]) % 2]

bitor(a, b) == [i \in 1..U64_BITS |-> IF a[i] + b[i] > 0 THEN 1 ELSE 0]

\* -((n & 0x01) as i64): 0, or -1 with every bit set
neg_low_bit(n) == [i \in 1..U64_BITS |-> n[1]]

\* n as u8
as_u8(n) ==
    n[1] + 2 * n[2] + 4 * n[3] + 8 * n[4] + 16 * n[5] + 32 * n[6] + 64 * n[7] + 128 * n[8]

\* zigzag_encode_64bit: ((n << 1) ^ (n >> 63)) as u64
zigzag_encode_64bit_wide(n) == bitxor(shl(n, 1), sar(n, 63))

\* zigzag_decode_64bit: ((n >> 1) as i64) ^ (-((n & 0x01) as i64))
zigzag_decode_64bit_wide(n) == bitxor(shr(n, 1), neg_low_bit(n))

\* a from_u64 that takes n for a u32
RECURSIVE VarInt_from_u64_wide_u32(_)
VarInt_from_u64_wide_u32(n) ==
    IF shr([i \in 1..U64_BITS |-> IF i <= 32 THEN n[i] ELSE 0], PAY_LOAD_BIT_NUM) = u64_from(0)
    THEN <<as_u8(n) % (VARINTS_MASK + 1)>>
    ELSE <<(VARINTS_MASK + 1) + (as_u8(n) % (VARINTS_MASK + 1))>>
            \o VarInt_from_u64_wide_u32(
                   shr([i \in 1..U64_BITS |-> IF i <= 32 THEN n[i] ELSE 0],
                       PAY_LOAD_BIT_NUM))

\* VarInt::from_u64: the low seven bits of n, the top bit set on every byte
\* pushed while n >> 7 is not 0
RECURSIVE VarInt_from_u64_wide(_)
VarInt_from_u64_wide(n) ==
    IF shr(n, PAY_LOAD_BIT_NUM) = u64_from(0)
    THEN <<as_u8(n) % (VARINTS_MASK + 1)>>
    ELSE <<(VARINTS_MASK + 1) + (as_u8(n) % (VARINTS_MASK + 1))>>
            \o VarInt_from_u64_wide(shr(n, PAY_LOAD_BIT_NUM))

\* VarInt::from_i64
VarInt_from_i64_wide(n) == VarInt_from_u64_wide(zigzag_encode_64bit_wide(n))

\* VarInt::as_u64: for byte in bytes.iter().rev() { n = n << 7 | payload }
RECURSIVE VarInt_as_u64_wide(_)
VarInt_as_u64_wide(bytes) ==
    IF bytes = <<>> THEN u64_from(0)
    ELSE bitor(shl(VarInt_as_u64_wide(Tail(bytes)), PAY_LOAD_BIT_NUM),
               u64_from(bytes[1] % (VARINTS_MASK + 1)))

\* VarInt::as_i64
VarInt_as_i64_wide(bytes) == zigzag_decode_64bit_wide(VarInt_as_u64_wide(bytes))

\* ----------------------------------------------------------------- strings

\* impl Decode for String (decode.rs): a u8 prefix holding length + 1
String_decode(buf, pos) ==
    Then(u8_decode(buf, pos),
         LAMBDA l : IF ~(l.val > 0) THEN Panic ELSE read_utf8(buf, l.pos, l.val - 1))

\* impl Encode for String (encode.rs): a u8 prefix holding length + 1
String_encode(s) == <<Len(s) + 1>> \o s

\* Read::read_exact of n bytes into a Vec<u8>
read_exact(buf, pos, n) ==
    IF Remaining(buf, pos) < n THEN read_exact_incomplete_error
    ELSE Ok(SubSeq(buf, pos + 1, pos + n), pos + n)

\* what stands for the bytes of an encode that panicked
EncodePanic == <<-1>>

\* an Option read behind a length prefix: Some of what was read
AsSome(r) == IF r.st # "ok" THEN r ELSE Ok([some |-> TRUE, items |-> r.val], r.pos)

\* impl Encode for KafkaString: i16 length, then the bytes
KafkaString_encode(s) ==
    IF Len(s) > 32767 THEN EncodePanic ELSE i16_encode(Len(s)) \o s

\* impl Decode for KafkaString
KafkaString_decode(buf, pos) ==
    Then(i16_decode(buf, pos),
         LAMBDA l : IF ~(l.val >= 0) THEN Panic ELSE read_utf8(buf, l.pos, l.val))

\* impl Encode for CompactString: VarInt of length + 1, then the bytes
CompactString_encode(s) == VarInt_from_u64(Len(s) + 1) \o s

\* impl Decode for CompactString
CompactString_decode(buf, pos) ==
    Then(VarInt_decode(buf, pos),
         LAMBDA l : IF ~(VarInt_as_u64(l.val) > 0) THEN Panic
                    ELSE read_utf8(buf, l.pos, VarInt_as_u64(l.val) - 1))

\* impl Encode for NullableString: None is FF FF
NullableString_encode(v) ==
    IF ~v.some THEN <<255, 255>>
    ELSE IF Len(v.items) > 32767 THEN EncodePanic
    ELSE i16_encode(Len(v.items)) \o v.items

\* impl Decode for NullableString
NullableString_decode(buf, pos) ==
    Then(i16_decode(buf, pos),
         LAMBDA l : IF l.val >= 0 THEN AsSome(read_utf8(buf, l.pos, l.val))
                    ELSE Ok([some |-> FALSE, items |-> <<>>], l.pos))

\* impl Encode for CompactNullableString: None is 00
CompactNullableString_encode(v) ==
    IF ~v.some THEN <<0>> ELSE VarInt_from_u64(Len(v.items) + 1) \o v.items

\* impl Decode for CompactNullableString
CompactNullableString_decode(buf, pos) ==
    Then(VarInt_decode(buf, pos),
         LAMBDA l : IF VarInt_as_u64(l.val) > 0
                    THEN AsSome(read_utf8(buf, l.pos, VarInt_as_u64(l.val) - 1))
                    ELSE Ok([some |-> FALSE, items |-> <<>>], l.pos))

\* impl Encode for KafkaBytes: i32 length, then the bytes
KafkaBytes_encode(b) ==
    IF Len(b) >= 2147483647 THEN EncodePanic ELSE i32_encode(Len(b)) \o b

\* impl Decode for KafkaBytes: `vec![0_u8; length as usize]` of a negative
\* length asks for more than isize::MAX bytes and panics
KafkaBytes_decode(buf, pos) ==
    Then(i32_decode(buf, pos),
         LAMBDA l : IF l.val < 0 THEN Panic ELSE read_exact(buf, l.pos, l.val))

\* impl Encode for CompactBytes
CompactBytes_encode(b) == VarInt_from_u64(Len(b) + 1) \o b

\* impl Decode for CompactBytes
CompactBytes_decode(buf, pos) ==
    Then(VarInt_decode(buf, pos),
         LAMBDA l : IF ~(VarInt_as_u64(l.val) > 0) THEN Panic
                    ELSE read_exact(buf, l.pos, VarInt_as_u64(l.val) - 1))

\* impl Encode for NullableBytes: None is FF FF FF FF
NullableBytes_encode(v) ==
    IF ~v.some THEN <<255, 255, 255, 255>>
    ELSE IF Len(v.items) > 2147483647 THEN EncodePanic
    ELSE i32_encode(Len(v.items)) \o v.items

\* impl Decode for NullableBytes
NullableBytes_decode(buf, pos) ==
    Then(i32_decode(buf, pos),
         LAMBDA l : IF l.val >= 0 THEN AsSome(read_exact(buf, l.pos, l.val))
                    ELSE Ok([some |-> FALSE, items |-> <<>>], l.pos))

\* impl Encode for CompactNullableBytes: None is 00
CompactNullableBytes_encode(v) ==
    IF ~v.some THEN <<0>> ELSE VarInt_from_u64(Len(v.items) + 1) \o v.items

\* impl Decode for CompactNullableBytes
CompactNullableBytes_decode(buf, pos) ==
    Then(VarInt_decode(buf, pos),
         LAMBDA l : IF VarInt_as_u64(l.val) > 0
                    THEN AsSome(read_exact(buf, l.pos, VarInt_as_u64(l.val) - 1))
                    ELSE Ok([some |-> FALSE, items |-> <<>>], l.pos))

\* a RecordKey encoder that writes the length without the zig-zag step
RecordKey_encode_unsigned(v) ==
    IF ~v.some THEN <<1>> ELSE VarInt_from_u64(Len(v.items)) \o v.items

\* impl Encode for RecordKey: None is 01 (zig-zag -1), else VarInt::from_i64 of
\* the length, then the bytes
RecordKey_encode(v) ==
    IF ~v.some THEN <<1>> ELSE VarInt_from_i64(Len(v.items)) \o v.items

\* impl Decode for RecordKey
RecordKey_decode(buf, pos) ==
    Then(VarInt_decode(buf, pos),
         LAMBDA l : IF VarInt_as_i64(l.val) >= 0
                    THEN AsSome(read_exact(buf, l.pos, VarInt_as_i64(l.val)))
                    ELSE Ok([some |-> FALSE, items |-> <<>>], l.pos))

\* impl Decode for HeaderClientId (request_message.rs): a u16 length prefix
HeaderClientId_decode(buf, pos) ==
    Then(u16_decode(buf, pos),
         LAMBDA l : Then(read_utf8(buf, l.pos, l.val),
                         LAMBDA s : Ok([id |-> s.val], s.pos)))

\* #[derive(Encode)] of HeaderClientId: its one field, a String, by
\* impl Encode for String (encode.rs)
HeaderClientId_encode(v) == String_encode(v.id)

\* ------------------------------------------------------------ derived codecs

\* Option<Vec<T>>: None is [some |-> FALSE, items |-> <<>>]
None == [some |-> FALSE, items |-> <<>>]
Some(items) == [some |-> TRUE, items |-> items]

\* the structs with #[derive(Decode)] / #[derive(Encode)]: field names and types
RequestHeaderV2 ==
    << <<"request_api_key", "i16">>, <<"request_api_version", "i16">>,
       <<"correlation_id", "i32">>, <<"client_id", "HeaderClientId">>,
       <<"tag_buffer", "TagBuffer">> >>

ApiVersionsV4ReqeustBody ==
    << <<"client_id", "String">>, <<"client_software_version", "String">>,
       <<"tag_buffer", "TagBuffer">> >>

TagBuffer == << <<"fields", "CompactArray<TagSection>">> >>

TagSection == << <<"tag", "u8">>, <<"data", "CompactArray<u8>">> >>

ResponseHeaderV0 == << <<"correlation_id", "i32">> >>

ResponseHeaderV1 == << <<"correlation_id", "i32">>, <<"tag_buffer", "TagBuffer">> >>

ApiKey ==
    << <<"api_key", "i16">>, <<"min_version", "i16">>, <<"max_version", "i16">>,
       <<"tag_buffer", "TagBuffer">> >>

\* response_message.rs
ApiVersionsV4ResponseBody ==
    << <<"error_code", "i16">>, <<"api_keys", "Vec<ApiKey>">>,
       <<"throttle_time_ms", "i32">>, <<"tag_buffer", "TagBuffer">> >>

\* api_versions.rs
ApiVersionsResponseBodyV4 ==
    << <<"error_code", "i16">>, <<"api_keys", "CompactArray<ApiKey>">>,
       <<"throttle_time_ms", "i32">>, <<"tag_buffer", "TagBuffer">> >>

\* describe_topic_partitions.rs
RepicaNode == << <<"id", "i32">> >>

\* metadata_log.rs: the record batches of a log file
RecordBatch ==
    << <<"base_offset", "i64">>, <<"batch_length", "i32">>,
       <<"partition_leader_epoch", "i32">>, <<"magic_byte", "i8">>,
       <<"crc", "i32">>, <<"attributes", "MetadataAttributes">>,
       <<"last_offset_data", "i32">>, <<"base_timestamp", "i64">>,
       <<"max_timestamp", "i64">>, <<"producer_id", "i64">>,
       <<"producer_epoch", "i16">>, <<"base_sequence", "i32">>,
       <<"records", "Array<Record>">> >>

Record ==
    << <<"length", "Varint">>, <<"attributes", "i8">>, <<"timestamp_delta", "i8">>,
       <<"offset_delta", "i8">>, <<"key", "CompactArray<u8>">>,
       <<"value", "RecordValue">>, <<"headers_array_count", "CompactArray<u8>">> >>

TopicRecord ==
    << <<"frame_version", "i8">>, <<"record_type", "i8">>, <<"version", "i8">>,
       <<"name", "CompactString">>, <<"id", "Uuid">>, <<"tag_buffers", "TagBuffer">> >>

ParitionRecord ==
    << <<"frame_version", "i8">>, <<"record_type", "i8">>, <<"version", "i8">>,
       <<"parition_id", "i32">>, <<"topic_uuid", "Uuid">>,
       <<"replica_nodes", "CompactArray<RepicaNode>">>,
       <<"isr_nodes", "CompactArray<RepicaNode>">>,
       <<"removing_replicas_nodes", "CompactArray<RepicaNode>">>,
       <<"adding_replicas_nodes", "CompactArray<RepicaNode>">>,
       <<"leader_id", "i32">>, <<"leader_epoch", "i32">>,
       <<"partition_epoch", "i32">>, <<"directories", "CompactArray<Directory>">>,
       <<"tag_buffers", "TagBuffer">> >>

Directory == << <<"id", "Uuid">> >>

FeatureLevelRecord ==
    << <<"frame_version", "i8">>, <<"record_type", "i8">>, <<"version", "i8">>,
       <<"name", "CompactString">>, <<"feature_level", "i16">>,
       <<"tag_buffers", "TagBuffer">> >>

StructTypes ==
    {"RequestHeaderV2", "ApiVersionsV4ReqeustBody", "TagBuffer", "TagSection",
     "ResponseHeaderV0", "ResponseHeaderV1", "ApiKey", "ApiVersionsV4ResponseBody",
     "ApiVersionsResponseBodyV4", "RepicaNode", "RecordBatch", "Record",
     "TopicRecord", "ParitionRecord", "Directory", "FeatureLevelRecord"}

StructFields(ty) ==
    CASE ty = "RequestHeaderV2" -> RequestHeaderV2
      [] ty = "ApiVersionsV4ReqeustBody" -> ApiVersionsV4ReqeustBody
      [] ty = "TagBuffer" -> TagBuffer
      [] ty = "TagSection" -> TagSection
      [] ty = "ResponseHeaderV0" -> ResponseHeaderV0
      [] ty = "ResponseHeaderV1" -> ResponseHeaderV1
      [] ty = "ApiKey" -> ApiKey
      [] ty = "ApiVersionsV4ResponseBody" -> ApiVersionsV4ResponseBody
      [] ty = "ApiVersionsResponseBodyV4" -> ApiVersionsResponseBodyV4
      [] ty = "RepicaNode" -> RepicaNode
      [] ty = "RecordBatch" -> RecordBatch
      [] ty = "Record" -> Record
      [] ty = "TopicRecord" -> TopicRecord
      [] ty = "ParitionRecord" -> ParitionRecord
      [] ty = "Directory" -> Directory
      [] ty = "FeatureLevelRecord" -> FeatureLevelRecord

\* the element type of the CompactArray<T> and Vec<T> instances
ItemType(ty) ==
    CASE ty = "CompactArray<u8>" -> "u8"
      [] ty = "CompactArray<i32>" -> "i32"
      [] ty = "Array<i32>" -> "i32"
      [] ty = "Array<Record>" -> "Record"
      [] ty = "CompactArray<RepicaNode>" -> "RepicaNode"
      [] ty = "CompactArray<Directory>" -> "Directory"
      [] ty = "CompactArray<TagSection>" -> "TagSection"
      [] ty = "CompactArray<ApiKey>" -> "ApiKey"
      [] ty = "Vec<ApiKey>" -> "ApiKey"

RECURSIVE Decode(_, _, _), Encode(_, _)

\* `for _ in 0..n { T::decode(buffer)? }`
RECURSIVE decode_items(_, _, _, _, _)
decode_items(ty, buf, pos, n, acc) ==
    IF n = 0 THEN Ok(acc, pos)
    ELSE Then(Decode(ty, buf, pos),
              LAMBDA r : decode_items(ty, buf, r.pos, n - 1, Append(acc, r.val)))

\* impl Decode for Vec<T> (decode.rs): a u8 prefix holding len + 1, asserted
\* greater than 0
Vec_decode(ty, buf, pos) ==
    Then(u8_decode(buf, pos),
         LAMBDA l : IF l.val > 0
                    THEN decode_items(ty, buf, l.pos, l.val - 1, <<>>)
                    ELSE Panic)

\* impl Decode for CompactArray<T>
CompactArray_decode(ty, buf, pos) ==
    Then(VarInt_decode(buf, pos),
         LAMBDA l : IF VarInt_as_u64(l.val) > 0
                    THEN Then(decode_items(ty, buf, l.pos, VarInt_as_u64(l.val) - 1, <<>>),
                              LAMBDA r : Ok(Some(r.val), r.pos))
                    ELSE Ok(None, l.pos))

\* impl Decode for Array<T>: an i32 length, negative for None
Array_decode(ty, buf, pos) ==
    Then(i32_decode(buf, pos),
         LAMBDA l : IF l.val >= 0
                    THEN Then(decode_items(ty, buf, l.pos, l.val, <<>>),
                              LAMBDA r : Ok(Some(r.val), r.pos))
                    ELSE Ok(None, l.pos))

\* RecordType of metadata_log.rs
TOPIC_RECORD == 2

PARITION_RECORD == 3

FEATURE_LEVEL_RECORD == 12

\* impl Decode for RecordValue (metadata_log.rs), after value_length `l` and the
\* peeked record_type: the cursor is back at the frame_version (l.pos); an
\* unknown type is skipped by seek_relative(value_length), which fails, and
\* `expect` panics, when the position would be negative
RecordValue_decode_match(buf, l, record_type) ==
    CASE record_type = TOPIC_RECORD ->
            Then(Decode("TopicRecord", buf, l.pos),
                 LAMBDA r : Ok([variant |-> "Topic", record |-> r.val], r.pos))
      [] record_type = PARITION_RECORD ->
            Then(Decode("ParitionRecord", buf, l.pos),
                 LAMBDA r : Ok([variant |-> "Partition", record |-> r.val], r.pos))
      [] record_type = FEATURE_LEVEL_RECORD ->
            Then(Decode("FeatureLevelRecord", buf, l.pos),
                 LAMBDA r : Ok([variant |-> "FeatureLevel", record |-> r.val], r.pos))
      [] OTHER ->
            IF l.pos + VarInt_as_i64(l.val) < 0 THEN Panic
            ELSE Ok([variant |-> "Unknown"], l.pos + VarInt_as_i64(l.val))

\* impl Decode for RecordValue (metadata_log.rs): value_length, then
\* frame_version and record_type are read and the cursor is moved back over them
RecordValue_decode(buf, pos) ==
    Then(VarInt_decode(buf, pos),
         LAMBDA l : Then(i8_decode(buf, l.pos),
                         LAMBDA f : Then(i8_decode(buf, f.pos),
                                         LAMBDA t : RecordValue_decode_match(buf, l, t.val))))

\* impl Decode for MetadataAttributes: from_bits is None when a bit outside the
\* nine flags (all below 1 << 7) is set
MetadataAttributes_decode(buf, pos) ==
    Then(u16_decode(buf, pos),
         LAMBDA flags : IF flags.val >= 128 THEN Other ELSE flags)

\* parse_known_record (common_struct.rs); its TopicRecord, ParitionRecord and
\* FeatureLevelRecord have the fields of those of metadata_log.rs, in the same
\* order (topic_uuid is called topic_id)
parse_known_record(record_type, buf, pos) ==
    CASE record_type = TOPIC_RECORD ->
            Then(Decode("TopicRecord", buf, pos),
                 LAMBDA r : Ok([variant |-> "Topic", record |-> r.val], r.pos))
      [] record_type = PARITION_RECORD ->
            Then(Decode("ParitionRecord", buf, pos),
                 LAMBDA r : Ok([variant |-> "Partition", record |-> r.val], r.pos))
      [] record_type = FEATURE_LEVEL_RECORD ->
            Then(Decode("FeatureLevelRecord", buf, pos),
                 LAMBDA r : Ok([variant |-> "FeatureLevel", record |-> r.val], r.pos))
      [] OTHER -> Other

\* impl Decode for RecordValue (common_struct.rs), the match on
\* parse_known_record: on any Err the cursor is set back to `position` and
\* value_length bytes are read into RecordValue::Unknown; a negative
\* value_length `as usize` is a length no Vec can have (capacity overflow)
RecordValue_decode_or_unknown(buf, l, parsed) ==
    CASE parsed.st \in {"ok", "panic"} -> parsed
      [] VarInt_as_i64(l.val) < 0 -> Panic
      [] OTHER ->
            Then(read_exact(buf, l.pos, VarInt_as_i64(l.val)),
                 LAMBDA b : Ok([variant |-> "Unknown", record |-> b.val], b.pos))

\* impl Decode for RecordValue (common_struct.rs): value_length, then
\* frame_version and record_type are read and the cursor is moved back over them
common_struct_RecordValue_decode(buf, pos) ==
    Then(VarInt_decode(buf, pos),
         LAMBDA l : Then(i8_decode(buf, l.pos),
                         LAMBDA f : Then(i8_decode(buf, f.pos),
                                         LAMBDA t : RecordValue_decode_or_unknown(
                                                        buf, l,
                                                        parse_known_record(t.val, buf, l.pos)))))

\* kafka-serde-derive derive_decode: the named fields in order, each with `?`
\* (the first half of the fields, then the second half from where the first
\* ended: the order of the struct, in a recursion of logarithmic depth)
RECURSIVE derive_decode(_, _, _, _)
derive_decode(fields, buf, pos, acc) ==
    CASE fields = <<>> -> Ok(acc, pos)
      [] Len(fields) = 1 ->
            Then(Decode(fields[1][2], buf, pos),
                 LAMBDA r : Ok(acc @@ (fields[1][1] :> r.val), r.pos))
      [] OTHER ->
            Then(derive_decode(SubSeq(fields, 1, Len(fields) \div 2), buf, pos, acc),
                 LAMBDA h : derive_decode(SubSeq(fields, Len(fields) \div 2 + 1, Len(fields)),
                                          buf, h.pos, h.val))

\* trait Decode, by type
Decode(ty, buf, pos) ==
    CASE ty = "u8" -> u8_decode(buf, pos)
      [] ty = "i8" -> i8_decode(buf, pos)
      [] ty = "u16" -> u16_decode(buf, pos)
      [] ty = "i16" -> i16_decode(buf, pos)
      [] ty = "u32" -> u32_decode(buf, pos)
      [] ty = "i32" -> i32_decode(buf, pos)
      [] ty = "String" -> String_decode(buf, pos)
      [] ty = "HeaderClientId" -> HeaderClientId_decode(buf, pos)
      [] ty = "Vec<ApiKey>" -> Vec_decode(ItemType(ty), buf, pos)
      [] ty \in {"CompactArray<u8>", "CompactArray<TagSection>", "CompactArray<ApiKey>",
                 "CompactArray<i32>"} ->
            CompactArray_decode(ItemType(ty), buf, pos)
      [] ty \in {"Array<i32>", "Array<Record>"} -> Array_decode(ItemType(ty), buf, pos)
      [] ty \in {"CompactArray<RepicaNode>", "CompactArray<Directory>"} ->
            CompactArray_decode(ItemType(ty), buf, pos)
      [] ty = "i64" -> i64_decode(buf, pos)
      [] ty = "Uuid" -> Uuid_decode(buf, pos)
      [] ty = "Varint" -> VarInt_decode(buf, pos)
      [] ty = "MetadataAttributes" -> MetadataAttributes_decode(buf, pos)
      [] ty = "RecordValue" -> RecordValue_decode(buf, pos)
      [] ty = "common_struct::RecordValue" -> common_struct_RecordValue_decode(buf, pos)
      [] ty = "KafkaString" -> KafkaString_decode(buf, pos)
      [] ty = "NullableString" -> NullableString_decode(buf, pos)
      [] ty = "CompactString" -> CompactString_decode(buf, pos)
      [] ty = "CompactNullableString" -> CompactNullableString_decode(buf, pos)
      [] ty = "KafkaBytes" -> KafkaBytes_decode(buf, pos)
      [] ty = "NullableBytes" -> NullableBytes_decode(buf, pos)
      [] ty = "CompactBytes" -> CompactBytes_decode(buf, pos)
      [] ty = "CompactNullableBytes" -> CompactNullableBytes_decode(buf, pos)
      [] ty = "RecordKey" -> RecordKey_decode(buf, pos)
      [] ty \in StructTypes -> derive_decode(StructFields(ty), buf, pos, <<>>)

RECURSIVE encode_items(_, _)
encode_items(ty, items) ==
    IF items = <<>> THEN <<>>
    ELSE Encode(ty, Head(items)) \o encode_items(ty, Tail(items))

\* impl Encode for CompactArray<T>
CompactArray_encode(ty, arr) ==
    IF ~arr.some THEN <<0>>
    ELSE VarInt_from_u64(Len(arr.items) + 1) \o encode_items(ty, arr.items)

\* an Array encoder that writes None as a length of 0
Array_encode_null_as_empty(ty, arr) ==
    IF ~arr.some THEN <<0, 0, 0, 0>>
    ELSE IF Len(arr.items) >= 2147483647 THEN EncodePanic
    ELSE i32_encode(Len(arr.items)) \o encode_items(ty, arr.items)

\* impl Encode for Array<T>: None is FF FF FF FF, else the i32 length and the items
Array_encode(ty, arr) ==
    IF ~arr.some THEN <<255, 255, 255, 255>>
    ELSE IF Len(arr.items) >= 2147483647 THEN EncodePanic
    ELSE i32_encode(Len(arr.items)) \o encode_items(ty, arr.items)

\* impl Encode for &[T] / Vec<T> (encode.rs): a u8 prefix holding len + 1
Vec_encode(ty, items) == <<Len(items) + 1>> \o encode_items(ty, items)

\* kafka-serde-derive derive_encode: the fields appended in order
RECURSIVE derive_encode(_, _)
derive_encode(fields, v) ==
    IF fields = <<>> THEN <<>>
    ELSE Encode(fields[1][2], v[fields[1][1]]) \o derive_encode(Tail(fields), v)

\* impl Encode for RecordValue (metadata_log.rs): the record without a length,
\* 00 for Unknown
RecordValue_encode(v) ==
    CASE v.variant = "Topic" -> Encode("TopicRecord", v.record)
      [] v.variant = "Partition" -> Encode("ParitionRecord", v.record)
      [] v.variant = "FeatureLevel" -> Encode("FeatureLevelRecord", v.record)
      [] OTHER -> <<0>>

\* the bytes of a RecordValue (common_struct.rs) before their length
record_encode(v) ==
    CASE v.variant = "Topic" -> Encode("TopicRecord", v.record)
      [] v.variant = "Partition" -> Encode("ParitionRecord", v.record)
      [] v.variant = "FeatureLevel" -> Encode("FeatureLevelRecord", v.record)
      [] OTHER -> v.record

\* impl Encode for RecordValue (common_struct.rs): every variant is
\* VarInt::from_i64(record_encode.len()) and the bytes
common_struct_RecordValue_encode(v) ==
    VarInt_from_i64(Len(record_encode(v))) \o record_encode(v)

\* trait Encode, by type
Encode(ty, v) ==
    CASE ty = "u8" -> u8_encode(v)
      [] ty = "i16" -> i16_encode(v)
      [] ty = "u32" -> u32_encode(v)
      [] ty = "i32" -> i32_encode(v)
      [] ty = "String" -> String_encode(v)
      [] ty \in {"CompactArray<u8>", "CompactArray<TagSection>", "CompactArray<ApiKey>",
                 "CompactArray<i32>"} ->
            CompactArray_encode(ItemType(ty), v)
      [] ty = "Array<i32>" -> Array_encode(ItemType(ty), v)
      [] ty = "KafkaString" -> KafkaString_encode(v)
      [] ty = "NullableString" -> NullableString_encode(v)
      [] ty = "CompactString" -> CompactString_encode(v)
      [] ty = "CompactNullableString" -> CompactNullableString_encode(v)
      [] ty = "KafkaBytes" -> KafkaBytes_encode(v)
      [] ty = "NullableBytes" -> NullableBytes_encode(v)
      [] ty = "CompactBytes" -> CompactBytes_encode(v)
      [] ty = "CompactNullableBytes" -> CompactNullableBytes_encode(v)
      [] ty = "RecordKey" -> RecordKey_encode(v)
      [] ty = "Vec<ApiKey>" -> Vec_encode(ItemType(ty), v)
      [] ty = "i8" -> i8_encode(v)
      [] ty = "Uuid" -> Uuid_encode(v)
      [] ty = "HeaderClientId" -> HeaderClientId_encode(v)
      [] ty \in {"CompactArray<RepicaNode>", "CompactArray<Directory>"} ->
            CompactArray_encode(ItemType(ty), v)
      [] ty = "RecordValue" -> RecordValue_encode(v)
      [] ty = "common_struct::RecordValue" -> common_struct_RecordValue_encode(v)
      [] ty \in StructTypes -> derive_encode(StructFields(ty), v)

\* TagBuffer::default() and TagBuffer::new(None): no fields
TagBuffer_default == [fields |-> None]

\* --------------------------------------------------------- request messages

\* ApiKey::new
ApiKey_new(api_key, min_version, max_version) ==
    [api_key |-> api_key, min_version |-> min_version, max_version |-> max_version,
     tag_buffer |-> TagBuffer_default]

\* API_VERSIONS_API_INFO: ApiKey::new(18, 0, 4, ..)
API_VERSIONS_API_INFO == ApiKey_new(18, 0, 4)

\* impl Decode for RequestMessage: any api key but ApiVersions is unimplemented!()
RequestMessage_decode(buf, pos) ==
    Then(u32_decode(buf, pos), LAMBDA m :
    Then(Decode("RequestHeaderV2", buf, m.pos), LAMBDA h :
        IF h.val.request_api_key = API_VERSIONS_API_INFO.api_key
        THEN Then(Decode("ApiVersionsV4ReqeustBody", buf, h.pos), LAMBDA b :
                  Ok([message_size |-> m.val, header |-> h.val, body |-> b.val], b.pos))
        ELSE Panic))

\* #[derive(Encode)] of RequestMessage: message_size, header, body
RequestMessage_encode(msg) ==
    u32_encode(msg.message_size) \o Encode("RequestHeaderV2", msg.header)
        \o Encode("ApiVersionsV4ReqeustBody", msg.body)

\* RequestMessage::as_bytes: a message_size of 0 is computed from the encoded
\* header and body
RequestMessage_as_bytes(msg) ==
    IF msg.message_size = 0
    THEN LET encode_header == Encode("RequestHeaderV2", msg.header)
             encode_body == Encode("ApiVersionsV4ReqeustBody", msg.body)
         IN  u32_encode(Len(encode_header) + Len(encode_body))
                 \o encode_header \o encode_body
    ELSE RequestMessage_encode(msg)

\* request_api_versions with the client id and the software version left open
request_api_versions_with(message_size, request_api_version, client_id, version) ==
    [message_size |-> message_size,
     header |-> [request_api_key |-> API_VERSIONS_API_INFO.api_key,
                 request_api_version |-> request_api_version,
                 correlation_id |-> 0,
                 client_id |-> [id |-> client_id],
                 tag_buffer |-> TagBuffer_default],
     body |-> [client_id |-> client_id,
               client_software_version |-> version,
               tag_buffer |-> TagBuffer_default]]

\* "myclient" and "0.1"
myclient == <<109, 121, 99, 108, 105, 101, 110, 116>>
version_0_1 == <<48, 46, 49>>

\* request_api_versions (request_message.rs)
request_api_versions(request_api_version) ==
    request_api_versions_with(0, request_api_version, myclient, version_0_1)

\* the match of Connection::parse_request on the decode result: the outcome and
\* the buffer left
parse_request_match(buf, r) ==
    CASE r.st = "ok" -> [st |-> "some", request |-> r.val, buffer |-> Rest(buf, r.pos)]
      [] r.st = "incomplete" -> [st |-> "none", buffer |-> buf]
      [] r.st = "other" -> [st |-> "err", buffer |-> buf]
      [] OTHER -> [st |-> "panic", buffer |-> buf]

\* Connection::parse_request on Connection.buffer
parse_request(buf) == parse_request_match(buf, RequestMessage_decode(buf, 0))

\* -------------------------------------------------------- response messages

\* a v1 header that does not echo the correlation id
ResponseHeader_new_v1_zeroed(correlation_id) ==
    [version |-> 1, correlation_id |-> 0, tag_buffer |-> TagBuffer_default]

\* ResponseHeader::new_v0 / new_v1 (response_message.rs)
ResponseHeader_new_v0(correlation_id) ==
    [version |-> 0, correlation_id |-> correlation_id]

ResponseHeader_new_v1(correlation_id) ==
    [version |-> 1, correlation_id |-> correlation_id, tag_buffer |-> TagBuffer_default]

\* impl Encode for ResponseHeader
ResponseHeader_encode(h) ==
    IF h.version = 0 THEN Encode("ResponseHeaderV0", h) ELSE Encode("ResponseHeaderV1", h)

\* Vec::sort with ApiKey's Ord (by api_key): a stable insertion sort
RECURSIVE sort_insert(_, _)
sort_insert(sorted, k) ==
    IF sorted = <<>> THEN <<k>>
    ELSE IF k.api_key < Head(sorted).api_key THEN <<k>> \o sorted
    ELSE <<Head(sorted)>> \o sort_insert(Tail(sorted), k)

RECURSIVE sort(_)
sort(items) ==
    IF items = <<>> THEN <<>>
    ELSE sort_insert(sort(SubSeq(items, 1, Len(items) - 1)), items[Len(items)])

\* the orders in which a HashMap holding the set S of values may be iterated
Orders(S) ==
    {o \in [1..Cardinality(S) -> S] : \A x \in S : \E i \in 1..Cardinality(S) : o[i] = x}

\* ResponseMessage::new: message_size starts at 0
ResponseMessage_new(header, body) ==
    [message_size |-> 0, header |-> header, body |-> body]

\* ---- response_message.rs: the handler that execute_request dispatches to

DESCRIBE_TOPIC_PARTITIONS_API_INFO == ApiKey_new(75, 0, 0)

\* lazy_static SUPPORT_APIS of response_message.rs
SUPPORT_APIS == {API_VERSIONS_API_INFO, DESCRIBE_TOPIC_PARTITIONS_API_INFO}

UNSUPPORTED_VERSION_ERROR == 35

\* execute_api_verions without its version check
execute_api_verions_unchecked(req, order) ==
    ResponseMessage_new(
        ResponseHeader_new_v1(req.header.correlation_id),
        [kind |-> "ApiVersionsV4ResponseBody", error_code |-> 0,
         api_keys |-> sort(order), throttle_time_ms |-> 0,
         tag_buffer |-> TagBuffer_default])

\* response_message.rs execute_api_verions; order is the iteration order of
\* SUPPORT_APIS.values()
execute_api_verions(req, order) ==
    ResponseMessage_new(
        ResponseHeader_new_v1(req.header.correlation_id),
        [kind |-> "ApiVersionsV4ResponseBody",
         error_code |->
            IF /\ req.header.request_api_version >= API_VERSIONS_API_INFO.min_version
               /\ req.header.request_api_version <= API_VERSIONS_API_INFO.max_version
            THEN 0 ELSE UNSUPPORTED_VERSION_ERROR,
         api_keys |->
            IF /\ req.header.request_api_version >= API_VERSIONS_API_INFO.min_version
               /\ req.header.request_api_version <= API_VERSIONS_API_INFO.max_version
            THEN sort(order) ELSE sort(<<>>),
         throttle_time_ms |-> 0,
         tag_buffer |-> TagBuffer_default])

\* response_message.rs execute_request
execute_request(req, order) ==
    IF req.header.request_api_key = API_VERSIONS_API_INFO.api_key
    THEN [st |-> "ok", val |-> execute_api_verions(req, order)]
    ELSE [st |-> "err"]

\* impl Encode for ResponseBody: the derived encoder of the variant's struct
ResponseBody_encode(b) == Encode(b.kind, b)

\* #[derive(Encode)] struct ResponseMessage { message_size, header, body }
ResponseMessage_encode(m) ==
    u32_encode(m.message_size) \o ResponseHeader_encode(m.header)
    \o ResponseBody_encode(m.body)

\* an as_bytes whose message_size counts the body alone
ResponseMessage_as_bytes_body_only(m) ==
    IF m.message_size = 0
    THEN [bytes |-> u32_encode(Len(ResponseBody_encode(m.body)))
                    \o ResponseHeader_encode(m.header) \o ResponseBody_encode(m.body),
          msg |-> [m EXCEPT !.message_size = Len(ResponseBody_encode(m.body))]]
    ELSE [bytes |-> ResponseMessage_encode(m), msg |-> m]

\* ResponseMessage::as_bytes(&mut self): the bytes, and the message afterwards
ResponseMessage_as_bytes(m) ==
    IF m.message_size = 0
    THEN [bytes |-> u32_encode(Len(ResponseHeader_encode(m.header))
                               + Len(ResponseBody_encode(m.body)))
                    \o ResponseHeader_encode(m.header) \o ResponseBody_encode(m.body),
          msg |-> [m EXCEPT !.message_size = Len(ResponseHeader_encode(m.header))
                                             + Len(ResponseBody_encode(m.body))]]
    ELSE [bytes |-> ResponseMessage_encode(m), msg |-> m]

\* ------------------------------------------------------- what the peers send

\* correlation ids the clients use
CorrIds == <<287454020, 7>>

\* client_id "c"
ClientId == <<99>>

\* a request frame as a Kafka client lays it out: message_size, RequestHeaderV2
\* (api_key, api_version, correlation_id, client_id as STRING, empty tag buffer), body
Frame(api_key, api_version, correlation_id, client_id, body) ==
    LET rest == i16_encode(api_key) \o i16_encode(api_version)
                \o i32_encode(correlation_id)
                \o u16_encode(Len(client_id)) \o client_id \o <<0>> \o body
    IN  u32_encode(Len(rest)) \o rest

\* ApiVersions body: client_software_name "k", client_software_version "1", no tags
ApiVersionsBody == <<2, 107, 2, 49, 0>>

ApiVersionsFrame(api_version, correlation_id) ==
    Frame(18, api_version, correlation_id, ClientId, ApiVersionsBody)

\* a client id that is not UTF-8
BadUtf8Frame == Frame(18, 4, CorrIds[2], <<255>>, ApiVersionsBody)

\* the body of the spec's happy-path frame: 00 00
ZeroStringFrame == Frame(18, 4, CorrIds[1], ClientId, <<0, 0>>)

\* the ApiVersions happy-path frame: message_size 0x23, api_key 18, version 4,
\* correlation_id 0x11223344, client_id "myclient", empty tag buffer, body 00 00
HappyPathFrame ==
    <<0, 0, 0, 35>> \o <<0, 18, 0, 4, 17, 34, 51, 68>>
    \o <<0, 8, 109, 121, 99, 108, 105, 101, 110, 116>> \o <<0>> \o <<0, 0>>

\* DescribeTopicPartitions v0 for topic "foo": topics, partition limit, null cursor, tags
DescribeFooFrame ==
    Frame(75, 0, CorrIds[1], ClientId,
          <<2, 4, 102, 111, 111, 0>> \o i32_encode(1) \o <<255, 0>>)

\* Fetch v16 naming no topic
FetchFrame ==
    Frame(1, 16, CorrIds[1], ClientId,
          i32_encode(0) \o i32_encode(0) \o i32_encode(0) \o <<0>> \o i32_encode(0)
          \o i32_encode(0) \o <<1, 1, 1, 0>>)

Good == ApiVersionsFrame(4, CorrIds[1])

Unsupported == ApiVersionsFrame(99, CorrIds[2])

\* the split point of the script that sends one frame in two reads
MidFrame == Len(Good) \div 2

\* the scripts of Spec: each is the sequence of chunks the socket reads return
Scripts ==
    { <<>>,
      <<Good>>,
      <<Good \o Unsupported>>,
      <<SubSeq(Good, 1, MidFrame), SubSeq(Good, MidFrame + 1, Len(Good))>>,
      <<Unsupported \o Good, SubSeq(Good, 1, MidFrame)>>,
      <<Good \o BadUtf8Frame>>,
      <<HappyPathFrame>>,
      <<DescribeFooFrame>>,
      <<FetchFrame>> }

\* an ApiVersions frame whose message_size counts two bytes after the body
\* fields RequestMessage::decode reads
PaddedFrame == Frame(18, 4, CorrIds[1], ClientId, ApiVersionsBody \o <<0, 0>>)

\* the frames whose every split is tried by SpecParse
ParseFrames ==
    { Good, Unsupported, BadUtf8Frame, ZeroStringFrame, DescribeFooFrame,
      Good \o <<0, 0>>, PaddedFrame }

\* b delivered as b[0..k] and b[k..]; an empty half is no socket read
SplitScript(b, k) ==
    SelectSeq(<<SubSeq(b, 1, k), SubSeq(b, k + 1, Len(b))>>, LAMBDA ch : ch # <<>>)

SplitScripts == UNION {{SplitScript(b, k) : k \in 0..Len(b)} : b \in ParseFrames}

\* ------------------------------------------------- main.rs and connection.rs

NoRequest == [message_size |-> 0]
NoResponse == [message_size |-> 0]

\* the program counters at which a connection task has panicked
PanicPcs == {"panic_decode_error", "panic_reset", "panic_in_decode", "panic_execute"}

\* the index mutexes
Mutexes == {"TOPIC_PARTITIONS", "TOPIC_ID_NAME_MAP"}

\* no value is being encoded or decoded
CodecIdle == [pc |-> "idle"]

\* init_read_metadata_log has read nothing of the log `file`
MetadataLogUnread(file) == [file |-> file, pos |-> 0, record_batches |-> <<>>, next |-> 1]

\* the loop state of a handler that is not running
NoLoop == [i |-> 0, j |-> 0, acc |-> <<>>]

\* no handler of describe_topic_partitions.rs or fetch.rs is reached from
\* response_message::execute_request: the indices stay as lazy_static built them
\* (empty) and no lock is ever taken
HandlersIdle ==
    /\ hpc = [c \in Conns |-> "idle"]
    /\ hreq = [c \in Conns |-> NoRequest]
    /\ hidx = [c \in Conns |-> NoLoop]
    /\ hresp = [c \in Conns |-> <<>>]
    /\ lockHolder = [m \in Mutexes |-> 0]
    /\ poisoned = [m \in Mutexes |-> FALSE]
    /\ TOPIC_PARTITIONS = <<>>
    /\ TOPIC_ID_NAME_MAP = <<>>
    /\ files = <<>>

ConnInit(scripts) ==
    /\ listener = "start"
    /\ indexInit = "not_run"
    /\ logFileExists \in BOOLEAN
    /\ script \in scripts
    /\ delivered = [c \in Conns |-> 0]
    /\ pc = [c \in Conns |-> "idle"]
    /\ buffer = [c \in Conns |-> <<>>]
    /\ request = [c \in Conns |-> NoRequest]
    /\ response = [c \in Conns |-> NoResponse]
    /\ served = [c \in Conns |-> <<>>]
    /\ out = [c \in Conns |-> <<>>]
    /\ HandlersIdle
    /\ codec = CodecIdle
    /\ metadataLog = MetadataLogUnread(<<>>)

Init == ConnInit([Conns -> Scripts])

\* main: TcpListener::bind, the first statement after the logger is configured
Bind ==
    /\ listener = "start"
    /\ listener' = "listening"
    /\ UNCHANGED <<indexInit, logFileExists, connVars, handlerVars, codec, metadataLog>>

\* main: listener.accept() returns a socket and process(socket) is spawned;
\* process builds the Connection and enters read_request
Accept(c) ==
    /\ listener = "listening"
    /\ pc[c] = "idle"
    /\ pc' = [pc EXCEPT ![c] = "parse_request"]
    /\ UNCHANGED <<listener, indexInit, logFileExists, script, delivered, buffer,
                   request, response, served, out, handlerVars, codec, metadataLog>>

\* read_request: `if let Some(request) = self.parse_request()?`; an Err reaches
\* process's expect
ParseRequest(c) ==
    /\ pc[c] = "parse_request"
    /\ \E r \in {parse_request(buffer[c])} :
           /\ buffer' = [buffer EXCEPT ![c] = r.buffer]
           /\ pc' = [pc EXCEPT ![c] =
                        CASE r.st = "some" -> "execute_request"
                          [] r.st = "none" -> "read_buf"
                          [] r.st = "err" -> "panic_decode_error"
                          [] OTHER -> "panic_in_decode"]
           /\ request' = [request EXCEPT ![c] =
                             IF r.st = "some" THEN r.request ELSE @]
           /\ served' = [served EXCEPT ![c] =
                            IF r.st = "some" THEN Append(@, r.request) ELSE @]
    /\ UNCHANGED <<listener, indexInit, logFileExists, script, delivered, response,
                   out, handlerVars, codec, metadataLog>>

\* a read_request that takes every end of the stream for a clean one
SocketRead_always_clean(c) ==
    /\ pc[c] = "read_buf"
    /\ IF delivered[c] < Len(script[c])
       THEN /\ buffer' = [buffer EXCEPT ![c] = @ \o script[c][delivered[c] + 1]]
            /\ delivered' = [delivered EXCEPT ![c] = @ + 1]
            /\ pc' = [pc EXCEPT ![c] = "parse_request"]
       ELSE /\ pc' = [pc EXCEPT ![c] = "closed"]
            /\ UNCHANGED <<buffer, delivered>>
    /\ UNCHANGED <<listener, indexInit, logFileExists, script, request, response,
                   served, out, handlerVars, codec, metadataLog>>

\* read_request: `self.socket.read_buf(&mut self.buffer).await?`; 0 bytes is the
\* end of the stream
SocketRead(c) ==
    /\ pc[c] = "read_buf"
    /\ IF delivered[c] < Len(script[c])
       THEN /\ buffer' = [buffer EXCEPT ![c] = @ \o script[c][delivered[c] + 1]]
            /\ delivered' = [delivered EXCEPT ![c] = @ + 1]
            /\ pc' = [pc EXCEPT ![c] = "parse_request"]
       ELSE /\ pc' = [pc EXCEPT ![c] =
                         IF buffer[c] = <<>> THEN "closed" ELSE "panic_reset"]
            /\ UNCHANGED <<buffer, delivered>>
    /\ UNCHANGED <<listener, indexInit, logFileExists, script, request, response,
                   served, out, handlerVars, codec, metadataLog>>

\* process: response_message::execute_request(&request).await.expect(..)
ExecuteRequest(c) ==
    /\ pc[c] = "execute_request"
    /\ \E order \in Orders(SUPPORT_APIS) :
          \E r \in {execute_request(request[c], order)} :
              IF r.st = "ok"
              THEN /\ response' = [response EXCEPT ![c] = r.val]
                   /\ pc' = [pc EXCEPT ![c] = "write_response"]
              ELSE /\ pc' = [pc EXCEPT ![c] = "panic_execute"]
                   /\ UNCHANGED response
    /\ UNCHANGED <<listener, indexInit, logFileExists, script, delivered, buffer,
                   request, served, out, handlerVars, codec, metadataLog>>

\* a write_response that returns before anything reaches the socket
WriteResponse_unwritten(c) ==
    /\ pc[c] = "write_response"
    /\ pc' = [pc EXCEPT ![c] = "parse_request"]
    /\ UNCHANGED <<listener, indexInit, logFileExists, script, delivered, buffer,
                   request, response, served, out, handlerVars, codec, metadataLog>>

\* Connection::write_response: as_bytes, write_all, flush; then process loops
WriteResponse(c) ==
    /\ pc[c] = "write_response"
    /\ \E w \in {ResponseMessage_as_bytes(response[c])} :
           /\ out' = [out EXCEPT ![c] = Append(@, w.bytes)]
           /\ response' = [response EXCEPT ![c] = w.msg]
    /\ pc' = [pc EXCEPT ![c] = "parse_request"]
    /\ UNCHANGED <<listener, indexInit, logFileExists, script, delivered, buffer,
                   request, served, handlerVars, codec, metadataLog>>

Next ==
    \/ Bind
    \/ \E c \in Conns : Accept(c)
    \/ \E c \in Conns : ParseRequest(c)
    \/ \E c \in Conns : SocketRead(c)
    \/ \E c \in Conns : ExecuteRequest(c)
    \/ \E c \in Conns : WriteResponse(c)

Spec == Init /\ [][Next]_vars

\* one connection is sent one frame split at every point; the others send nothing
InitParse ==
    ConnInit({s \in [Conns -> SplitScripts \cup {<<>>}] :
                 /\ s[1] # <<>>
                 /\ \A c \in Conns : c # 1 => s[c] = <<>>})

SpecParse == InitParse /\ [][Next]_vars

\* --------------------------------------- connection.rs: the reader of responses

\* ResponseMessage::decode(buffer, request_api_key): any api key but ApiVersions
\* is unimplemented!()
ResponseMessage_decode(buf, pos, request_api_key) ==
    Then(u32_decode(buf, pos), LAMBDA m :
    Then(Decode("ResponseHeaderV1", buf, m.pos), LAMBDA h :
        IF request_api_key = API_VERSIONS_API_INFO.api_key
        THEN Then(Decode("ApiVersionsV4ResponseBody", buf, h.pos), LAMBDA b :
                  Ok([message_size |-> m.val, header |-> h.val, body |-> b.val], b.pos))
        ELSE Panic))

\* Connection::parse_response on Connection.buffer: the outcome and the buffer
\* left, which is the buffer it was given
parse_response(buf, request_api_key) ==
    [parse_request_match(buf, ResponseMessage_decode(buf, 0, request_api_key))
        EXCEPT !.buffer = buf]

\* how many times read_response is called on a connection
MaxCalls == 3

\* the response the server writes to an ApiVersions request of version
\* `api_version` and correlation id `correlation_id`
ResponseFrame(api_version, correlation_id) ==
    ResponseMessage_as_bytes(
        execute_api_verions(
            [header |-> [request_api_version |-> api_version,
                         correlation_id |-> correlation_id]],
            <<API_VERSIONS_API_INFO, DESCRIBE_TOPIC_PARTITIONS_API_INFO>>)).bytes

\* what a peer sends: one response, or two with different correlation ids
ResponseStreams ==
    { ResponseFrame(4, CorrIds[1]),
      ResponseFrame(4, CorrIds[1]) \o ResponseFrame(5, CorrIds[2]),
      ResponseFrame(5, CorrIds[2]) \o ResponseFrame(4, CorrIds[1]) }

ResponseScripts == UNION {{SplitScript(b, k) : k \in 0..Len(b)} : b \in ResponseStreams}

\* one connection receives a stream split at every point; the others nothing
InitResponses ==
    ConnInit({s \in [Conns -> ResponseScripts \cup {<<>>}] :
                 /\ s[1] # <<>>
                 /\ \A c \in Conns : c # 1 => s[c] = <<>>})

\* a call of Connection::read_response(API_VERSIONS_API_INFO.api_key), the first
\* or one after the last has returned a response
CallReadResponse(c) ==
    /\ pc[c] \in {"idle", "response_returned"}
    /\ Len(served[c]) < MaxCalls
    /\ pc' = [pc EXCEPT ![c] = "parse_response"]
    /\ UNCHANGED <<listener, indexInit, logFileExists, script, delivered, buffer,
                   request, response, served, out, handlerVars, codec, metadataLog>>

\* read_response: `if let Some(response) = self.parse_response(..)?`
ParseResponse(c) ==
    /\ pc[c] = "parse_response"
    /\ \E r \in {parse_response(buffer[c], API_VERSIONS_API_INFO.api_key)} :
           /\ buffer' = [buffer EXCEPT ![c] = r.buffer]
           /\ pc' = [pc EXCEPT ![c] =
                        CASE r.st = "some" -> "response_returned"
                          [] r.st = "none" -> "read_buf_response"
                          [] r.st = "err" -> "response_error"
                          [] OTHER -> "panic_in_decode"]
           /\ served' = [served EXCEPT ![c] =
                            IF r.st = "some" THEN Append(@, r.request) ELSE @]
    /\ UNCHANGED <<listener, indexInit, logFileExists, script, delivered, request,
                   response, out, handlerVars, codec, metadataLog>>

\* read_response: `else if 0 == self.socket.read_buf(&mut self.buffer).await?`
SocketReadResponse(c) ==
    /\ pc[c] = "read_buf_response"
    /\ IF delivered[c] < Len(script[c])
       THEN /\ buffer' = [buffer EXCEPT ![c] = @ \o script[c][delivered[c] + 1]]
            /\ delivered' = [delivered EXCEPT ![c] = @ + 1]
            /\ pc' = [pc EXCEPT ![c] = "parse_response"]
       ELSE /\ pc' = [pc EXCEPT ![c] =
                         IF buffer[c] = <<>> THEN "closed" ELSE "response_error"]
            /\ UNCHANGED <<buffer, delivered>>
    /\ UNCHANGED <<listener, indexInit, logFileExists, script, request, response,
                   served, out, handlerVars, codec, metadataLog>>

ResponsesNext ==
    \/ \E c \in Conns : CallReadResponse(c)
    \/ \E c \in Conns : ParseResponse(c)
    \/ \E c \in Conns : SocketReadResponse(c)

ResponsesSpec == InitResponses /\ [][ResponsesNext]_vars

\* ------------- api_versions.rs, describe_topic_partitions.rs, fetch.rs: values

FETCH_API_INFO == ApiKey_new(1, 0, 16)

\* lazy_static SUPPORT_APIS of api_versions.rs
api_versions_SUPPORT_APIS ==
    {FETCH_API_INFO, API_VERSIONS_API_INFO, DESCRIBE_TOPIC_PARTITIONS_API_INFO}

UNKNOWN_TOPIC_OR_PARTITION == 3

UNKNOWN_TOPIC_ID_ERROR == 100

\* TopicAuthorizedOperations::default(): 0x0000_0df8
TopicAuthorizedOperations_default == 3576

\* Uuid::nil(); a Uuid is modelled by its value as a 128-bit number
Uuid_nil == 0

\* CompactArray::empty()
CompactArray_empty == Some(<<>>)

\* ApiVersionsResponseBodyV4::new
ApiVersionsResponseBodyV4_new(error_code, api_keys, throttle_time_ms, tag_buffer) ==
    [kind |-> "ApiVersionsResponseBodyV4", error_code |-> error_code,
     api_keys |-> api_keys, throttle_time_ms |-> throttle_time_ms,
     tag_buffer |-> tag_buffer]

\* api_versions.rs execute_api_verions; order is the iteration order of
\* SUPPORT_APIS.values()
api_versions_execute_api_verions(header, order) ==
    ResponseMessage_new(
        ResponseHeader_new_v0(header.correlation_id),
        ApiVersionsResponseBodyV4_new(
            IF /\ header.request_api_version >= API_VERSIONS_API_INFO.min_version
               /\ header.request_api_version <= API_VERSIONS_API_INFO.max_version
            THEN 0 ELSE UNSUPPORTED_VERSION_ERROR,
            Some(IF /\ header.request_api_version >= API_VERSIONS_API_INFO.min_version
                    /\ header.request_api_version <= API_VERSIONS_API_INFO.max_version
                 THEN sort(order) ELSE sort(<<>>)),
            0, TagBuffer_default))

\* the early return when it is sent under the header of the other
\* DescribeTopicPartitions responses
execute_describe_topic_partitions_unsupported_v1(header) ==
    ResponseMessage_new(
        ResponseHeader_new_v1(header.correlation_id),
        ApiVersionsResponseBodyV4_new(UNSUPPORTED_VERSION_ERROR, Some(<<>>), 0,
                                      TagBuffer_default))

\* execute_describe_topic_partitions: the early return on a version mismatch
execute_describe_topic_partitions_unsupported(header) ==
    ResponseMessage_new(
        ResponseHeader_new_v0(header.correlation_id),
        ApiVersionsResponseBodyV4_new(UNSUPPORTED_VERSION_ERROR, Some(<<>>), 0,
                                      TagBuffer_default))

\* resp_topic when a name missing from the index is answered without the error
execute_describe_topic_partitions_topic_no_error(index, request_topic) ==
    IF request_topic.name \in DOMAIN index
    THEN [error_code |-> 0,
          name |-> index[request_topic.name].name,
          id |-> index[request_topic.name].id,
          is_internal |-> index[request_topic.name].is_internal,
          partitions_array |-> index[request_topic.name].partitions_array,
          topic_authorized_operations |->
              index[request_topic.name].topic_authorized_operations,
          tag_buffer |-> TagBuffer_default]
    ELSE [error_code |-> 0,
          name |-> request_topic.name,
          id |-> Uuid_nil,
          is_internal |-> FALSE,
          partitions_array |-> CompactArray_empty,
          topic_authorized_operations |-> TopicAuthorizedOperations_default,
          tag_buffer |-> TagBuffer_default]

\* execute_describe_topic_partitions: resp_topic for one requested topic, from
\* TOPIC_PARTITIONS.lock().get(&request_topic.name)
execute_describe_topic_partitions_topic(index, request_topic) ==
    IF request_topic.name \in DOMAIN index
    THEN [error_code |-> 0,
          name |-> index[request_topic.name].name,
          id |-> index[request_topic.name].id,
          is_internal |-> index[request_topic.name].is_internal,
          partitions_array |-> index[request_topic.name].partitions_array,
          topic_authorized_operations |->
              index[request_topic.name].topic_authorized_operations,
          tag_buffer |-> TagBuffer_default]
    ELSE [error_code |-> UNKNOWN_TOPIC_OR_PARTITION,
          name |-> request_topic.name,
          id |-> Uuid_nil,
          is_internal |-> FALSE,
          partitions_array |-> CompactArray_empty,
          topic_authorized_operations |-> TopicAuthorizedOperations_default,
          tag_buffer |-> TagBuffer_default]

\* execute_describe_topic_partitions: the response returned after the loop
execute_describe_topic_partitions_response(header, describe_topics) ==
    ResponseMessage_new(
        ResponseHeader_new_v1(header.correlation_id),
        [kind |-> "DescribeTopicPartitionsResponseBodyV0",
         throttle_time |-> 0,
         topic_array |-> Some(describe_topics),
         next_curor |-> [inner |-> None],
         tag_buffer |-> TagBuffer_default])

\* execute_fetch: the early return on a version mismatch
execute_fetch_unsupported(header) ==
    ResponseMessage_new(
        ResponseHeader_new_v0(header.correlation_id),
        ApiVersionsResponseBodyV4_new(UNSUPPORTED_VERSION_ERROR, Some(<<>>), 0,
                                      TagBuffer_default))

\* FetchPartitionResponse::new_empty
FetchPartitionResponse_new_empty(error_code) ==
    [partition_index |-> 0, error_code |-> error_code, high_watermark |-> 0,
     last_stable_offset |-> 0, log_start_offset |-> 0,
     aborted_transactions |-> CompactArray_empty, preferred_read_replica |-> 0,
     record_batches |-> CompactArray_empty, tag_buffer |-> TagBuffer_default]

\* resp_topic for one partition when the batches read from its log are dropped
execute_fetch_partition_no_batches(request_topic, partition, record_batches) ==
    [topic_id |-> request_topic.topic_id,
     partitions |-> Some(<<[partition_index |-> partition.partition_index,
                            error_code |-> 0, high_watermark |-> 0,
                            last_stable_offset |-> 0, log_start_offset |-> 0,
                            aborted_transactions |-> None,
                            preferred_read_replica |-> 0,
                            record_batches |-> Some(<<>>),
                            tag_buffer |-> TagBuffer_default]>>),
     tag_buffer |-> TagBuffer_default]

\* execute_fetch: resp_topic for one partition of a topic the index knows
execute_fetch_partition(request_topic, partition, record_batches) ==
    [topic_id |-> request_topic.topic_id,
     partitions |-> Some(<<[partition_index |-> partition.partition_index,
                            error_code |-> 0, high_watermark |-> 0,
                            last_stable_offset |-> 0, log_start_offset |-> 0,
                            aborted_transactions |-> None,
                            preferred_read_replica |-> 0,
                            record_batches |-> Some(record_batches),
                            tag_buffer |-> TagBuffer_default]>>),
     tag_buffer |-> TagBuffer_default]

\* resp_topic with one error partition response per requested partition
execute_fetch_unknown_topic_per_partition(request_topic) ==
    [topic_id |-> request_topic.topic_id,
     partitions |-> Some([n \in 1..Len(request_topic.partitions.items) |->
                            FetchPartitionResponse_new_empty(UNKNOWN_TOPIC_ID_ERROR)]),
     tag_buffer |-> TagBuffer_default]

\* execute_fetch: resp_topic for a topic id the index does not know
execute_fetch_unknown_topic(request_topic) ==
    [topic_id |-> request_topic.topic_id,
     partitions |-> Some(<<FetchPartitionResponse_new_empty(UNKNOWN_TOPIC_ID_ERROR)>>),
     tag_buffer |-> TagBuffer_default]

\* execute_fetch: the response returned after the loop
execute_fetch_response(header, fetch_topics) ==
    ResponseMessage_new(
        ResponseHeader_new_v1(header.correlation_id),
        [kind |-> "FetchResponseBodyV16",
         throttle_time_ms |-> 0, error_code |-> 0, session_id |-> 0,
         responses |-> Some(fetch_topics),
         tag_buffer |-> TagBuffer_default])

\* metadata_log::read_record_batches(path): the batches of the partition log
\* file, or the error of a file that cannot be read
read_record_batches(fs, file) ==
    IF file \in DOMAIN fs THEN [st |-> "ok", val |-> fs[file]] ELSE [st |-> "err"]

\* ------------------------------------------- what the handler tasks are given

\* topic names as UTF-8 bytes: "foo", "bar"
foo == <<102, 111, 111>>

bar == <<98, 97, 114>>

\* the TopicPartition init_topic_partitions builds from a PartitionRecord of
\* partition `index` led by broker 1
TopicPartition_of(index) ==
    [error_code |-> 0, index |-> index, leader_id |-> 1, leader_epoch |-> 0,
     repica_nodes |-> Some(<<[id |-> 1]>>), isr_nodes |-> Some(<<[id |-> 1]>>),
     eligible_leader_replicas |-> CompactArray_empty,
     last_known_elr |-> CompactArray_empty,
     offline_replicas |-> CompactArray_empty, tag_buffer |-> TagBuffer_default]

\* the TopicInfo init_topic_partitions builds for topic foo with partitions 0 and 1
foo_info ==
    [name |-> foo, id |-> 1, is_internal |-> FALSE,
     partitions_array |-> Some(<<TopicPartition_of(0), TopicPartition_of(1)>>),
     topic_authorized_operations |-> TopicAuthorizedOperations_default]

\* a decoded RequestHeaderV2
Header(api_key, api_version, correlation_id) ==
    [request_api_key |-> api_key, request_api_version |-> api_version,
     correlation_id |-> correlation_id, client_id |-> [id |-> ClientId],
     tag_buffer |-> TagBuffer_default]

\* a decoded DescribeTopicPartitionsRequestBodyV0 naming the topics `names`
DescribeBody(names) ==
    [topics |-> Some([n \in 1..Len(names) |->
                         [name |-> names[n], tag_buffer |-> TagBuffer_default]]),
     response_partition_limit |-> 1, cursor |-> [inner |-> None],
     tag_buffer |-> TagBuffer_default]

\* a decoded FetchTopicRequest for the partitions `indices` of topic `topic_id`
FetchTopic(topic_id, indices) ==
    [topic_id |-> topic_id,
     partitions |-> Some([n \in 1..Len(indices) |->
                             [partition_index |-> indices[n],
                              current_leader_epoch |-> 0, fetch_offset |-> 0,
                              last_fetched_epoch |-> 0, log_start_offset |-> 0,
                              partition_max_bytes |-> 0,
                              tag_buffer |-> TagBuffer_default]]),
     tag_buffer |-> TagBuffer_default]

\* a decoded FetchRequestBodyV16
FetchBody(topics) ==
    [max_wait_ms |-> 0, min_bytes |-> 0, max_bytes |-> 0, isolation_level |-> 0,
     session_id |-> 0, session_epoch |-> 0, topics |-> topics,
     forgotten_topics_data |-> CompactArray_empty, rack_id |-> <<>>,
     tag_buffer |-> TagBuffer_default]

\* a decoded ApiVersionsReqeustBodyV4
ApiVersionsRequestBody ==
    [client_id |-> <<107>>, client_software_version |-> <<49>>,
     tag_buffer |-> TagBuffer_default]

\* Fetch for partitions 0 and 1 of foo (their log files can be read) and for
\* two partitions of an unknown id
FetchReadable ==
    [header |-> Header(FETCH_API_INFO.api_key, 16, CorrIds[1]),
     body |-> FetchBody(Some(<<FetchTopic(foo_info.id, <<0, 1>>),
                               FetchTopic(2, <<0, 1>>)>>))]

\* Fetch for partitions 0 and 2 of foo: there is no log file of a partition 2
FetchUnreadable ==
    [header |-> Header(FETCH_API_INFO.api_key, 16, CorrIds[2]),
     body |-> FetchBody(Some(<<FetchTopic(foo_info.id, <<0, 2>>)>>))]

\* the requests a handler task may be given
HandlerRequests ==
    { [header |-> Header(API_VERSIONS_API_INFO.api_key, 4, CorrIds[1]),
       body |-> ApiVersionsRequestBody],
      [header |-> Header(API_VERSIONS_API_INFO.api_key, 5, CorrIds[2]),
       body |-> ApiVersionsRequestBody],
      [header |-> Header(DESCRIBE_TOPIC_PARTITIONS_API_INFO.api_key, 0, CorrIds[1]),
       body |-> DescribeBody(<<foo, bar>>)],
      [header |-> Header(DESCRIBE_TOPIC_PARTITIONS_API_INFO.api_key, 1, CorrIds[2]),
       body |-> DescribeBody(<<foo>>)],
      FetchReadable,
      FetchUnreadable,
      [header |-> Header(FETCH_API_INFO.api_key, 17, CorrIds[1]),
       body |-> FetchBody(None)],
      [header |-> Header(FETCH_API_INFO.api_key, 16, CorrIds[2]),
       body |-> FetchBody(None)] }

\* ---------------------------------------------------------- the handler tasks

\* the program counters at which a handler task has panicked
HandlerPanicPcs == {"panic_lock_expect", "panic_read_expect"}

\* the state in which requests are served once initialisation has succeeded:
\* the indices describe topic foo; the logs foo-0 and foo-1 hold one and two
\* record batches
HandlerInit ==
    /\ listener = "listening"
    /\ indexInit = "ok"
    /\ logFileExists = TRUE
    /\ script = [c \in Conns |-> <<>>]
    /\ delivered = [c \in Conns |-> 0]
    /\ pc = [c \in Conns |-> "idle"]
    /\ buffer = [c \in Conns |-> <<>>]
    /\ request = [c \in Conns |-> NoRequest]
    /\ response = [c \in Conns |-> NoResponse]
    /\ served = [c \in Conns |-> <<>>]
    /\ out = [c \in Conns |-> <<>>]
    /\ hpc = [c \in Conns |-> "idle"]
    /\ hreq = [c \in Conns |-> NoRequest]
    /\ hidx = [c \in Conns |-> NoLoop]
    /\ hresp = [c \in Conns |-> <<>>]
    /\ lockHolder = [m \in Mutexes |-> 0]
    /\ poisoned = [m \in Mutexes |-> FALSE]
    /\ TOPIC_PARTITIONS = (foo :> foo_info)
    /\ TOPIC_ID_NAME_MAP = (foo_info.id :> foo)
    /\ files = (<<foo, 0>> :> <<[base_offset |-> 0]>>)
                @@ (<<foo, 1>> :> <<[base_offset |-> 0], [base_offset |-> 1]>>)
    /\ codec = CodecIdle
    /\ metadataLog = MetadataLogUnread(<<>>)

\* what no handler step changes
HandlerFrame ==
    UNCHANGED <<listener, indexInit, logFileExists, connVars, TOPIC_PARTITIONS,
                TOPIC_ID_NAME_MAP, files, codec, metadataLog>>

\* the dispatcher hands a decoded request to the handler of its api_key
Dispatch(c) ==
    /\ hpc[c] = "idle"
    /\ \E req \in HandlerRequests :
          /\ hreq' = [hreq EXCEPT ![c] = req]
          /\ hpc' = [hpc EXCEPT ![c] =
                CASE req.header.request_api_key = API_VERSIONS_API_INFO.api_key ->
                        "execute_api_verions"
                  [] req.header.request_api_key
                        = DESCRIBE_TOPIC_PARTITIONS_API_INFO.api_key ->
                        "execute_describe_topic_partitions"
                  [] req.header.request_api_key = FETCH_API_INFO.api_key ->
                        "execute_fetch"]
    /\ hresp' = [hresp EXCEPT ![c] = <<>>]
    /\ hidx' = [hidx EXCEPT ![c] = NoLoop]
    /\ UNCHANGED <<lockHolder, poisoned>>
    /\ HandlerFrame

\* api_versions.rs execute_api_verions: no lock, no I/O
ExecuteApiVersions(c) ==
    /\ hpc[c] = "execute_api_verions"
    /\ \E order \in Orders(api_versions_SUPPORT_APIS) :
          hresp' = [hresp EXCEPT ![c] =
                       <<api_versions_execute_api_verions(hreq[c].header, order)>>]
    /\ hpc' = [hpc EXCEPT ![c] = "idle"]
    /\ UNCHANGED <<hreq, hidx, lockHolder, poisoned>>
    /\ HandlerFrame

\* execute_describe_topic_partitions: the version check
DescribeStart(c) ==
    /\ hpc[c] = "execute_describe_topic_partitions"
    /\ IF \/ hreq[c].header.request_api_version
                < DESCRIBE_TOPIC_PARTITIONS_API_INFO.min_version
          \/ hreq[c].header.request_api_version
                > DESCRIBE_TOPIC_PARTITIONS_API_INFO.max_version
       THEN /\ hresp' = [hresp EXCEPT ![c] =
                   <<execute_describe_topic_partitions_unsupported(hreq[c].header)>>]
            /\ hpc' = [hpc EXCEPT ![c] = "idle"]
            /\ UNCHANGED hidx
       ELSE /\ hidx' = [hidx EXCEPT ![c] = [i |-> 1, j |-> 0, acc |-> <<>>]]
            /\ hpc' = [hpc EXCEPT ![c] = "describe_loop"]
            /\ UNCHANGED hresp
    /\ UNCHANGED <<hreq, lockHolder, poisoned>>
    /\ HandlerFrame

\* TOPIC_PARTITIONS.lock().expect(..): waits for the mutex; a poisoned mutex
\* makes lock() return Err and expect panic
DescribeLock(c) ==
    /\ hpc[c] = "describe_loop"
    /\ hidx[c].i <= Len(hreq[c].body.topics.items)
    /\ lockHolder["TOPIC_PARTITIONS"] = 0
    /\ IF poisoned["TOPIC_PARTITIONS"]
       THEN /\ hpc' = [hpc EXCEPT ![c] = "panic_lock_expect"]
            /\ UNCHANGED lockHolder
       ELSE /\ hpc' = [hpc EXCEPT ![c] = "describe_lookup"]
            /\ lockHolder' = [lockHolder EXCEPT !["TOPIC_PARTITIONS"] = c]
    /\ UNCHANGED <<hreq, hidx, hresp, poisoned>>
    /\ HandlerFrame

\* the `if let` on the guard: the entry is looked up and cloned into resp_topic,
\* the guard is dropped at the end of the statement, resp_topic is pushed
DescribeLookup(c) ==
    /\ hpc[c] = "describe_lookup"
    /\ hidx' = [hidx EXCEPT ![c] =
           [i |-> @.i + 1, j |-> 0,
            acc |-> Append(@.acc,
                      execute_describe_topic_partitions_topic(
                          TOPIC_PARTITIONS, hreq[c].body.topics.items[@.i]))]]
    /\ lockHolder' = [lockHolder EXCEPT !["TOPIC_PARTITIONS"] = 0]
    /\ hpc' = [hpc EXCEPT ![c] = "describe_loop"]
    /\ UNCHANGED <<hreq, hresp, poisoned>>
    /\ HandlerFrame

\* after the loop: the response is returned
DescribeReturn(c) ==
    /\ hpc[c] = "describe_loop"
    /\ hidx[c].i > Len(hreq[c].body.topics.items)
    /\ hresp' = [hresp EXCEPT ![c] =
           <<execute_describe_topic_partitions_response(hreq[c].header, hidx[c].acc)>>]
    /\ hidx' = [hidx EXCEPT ![c] = NoLoop]
    /\ hpc' = [hpc EXCEPT ![c] = "idle"]
    /\ UNCHANGED <<hreq, lockHolder, poisoned>>
    /\ HandlerFrame

\* execute_fetch: the version check
FetchStart(c) ==
    /\ hpc[c] = "execute_fetch"
    /\ IF \/ hreq[c].header.request_api_version < FETCH_API_INFO.min_version
          \/ hreq[c].header.request_api_version > FETCH_API_INFO.max_version
       THEN /\ hresp' = [hresp EXCEPT ![c] = <<execute_fetch_unsupported(hreq[c].header)>>]
            /\ hpc' = [hpc EXCEPT ![c] = "idle"]
            /\ UNCHANGED hidx
       ELSE /\ hidx' = [hidx EXCEPT ![c] = [i |-> 1, j |-> 0, acc |-> <<>>]]
            /\ hpc' = [hpc EXCEPT ![c] = "fetch_loop"]
            /\ UNCHANGED hresp
    /\ UNCHANGED <<hreq, lockHolder, poisoned>>
    /\ HandlerFrame

\* TOPIC_ID_NAME_MAP.lock().expect(..): waits for the mutex; a poisoned mutex
\* makes lock() return Err and expect panic
FetchLock(c) ==
    /\ hpc[c] = "fetch_loop"
    /\ hidx[c].i <= Len(hreq[c].body.topics.items)
    /\ lockHolder["TOPIC_ID_NAME_MAP"] = 0
    /\ IF poisoned["TOPIC_ID_NAME_MAP"]
       THEN /\ hpc' = [hpc EXCEPT ![c] = "panic_lock_expect"]
            /\ UNCHANGED lockHolder
       ELSE /\ hpc' = [hpc EXCEPT ![c] = "fetch_lookup"]
            /\ lockHolder' = [lockHolder EXCEPT !["TOPIC_ID_NAME_MAP"] = c]
    /\ UNCHANGED <<hreq, hidx, hresp, poisoned>>
    /\ HandlerFrame

\* `if let Some(topic_name) = <guard>.get(&request_topic.topic_id)`: topic_name
\* borrows from the guard, which lives to the end of the `if let`. A known
\* topic with partitions enters the loop over them with the guard alive; an
\* unknown id pushes the error entry and the guard is dropped
FetchLookup(c) ==
    /\ hpc[c] = "fetch_lookup"
    /\ IF hreq[c].body.topics.items[hidx[c].i].topic_id \in DOMAIN TOPIC_ID_NAME_MAP
       THEN IF Len(hreq[c].body.topics.items[hidx[c].i].partitions.items) > 0
            THEN /\ hidx' = [hidx EXCEPT ![c].j = 1]
                 /\ hpc' = [hpc EXCEPT ![c] = "read_record_batches"]
                 /\ UNCHANGED lockHolder
            ELSE /\ hidx' = [hidx EXCEPT ![c].i = @ + 1]
                 /\ hpc' = [hpc EXCEPT ![c] = "fetch_loop"]
                 /\ lockHolder' = [lockHolder EXCEPT !["TOPIC_ID_NAME_MAP"] = 0]
       ELSE /\ hidx' = [hidx EXCEPT ![c] =
                   [i |-> @.i + 1, j |-> 0,
                    acc |-> Append(@.acc, execute_fetch_unknown_topic(
                                              hreq[c].body.topics.items[@.i]))]]
            /\ hpc' = [hpc EXCEPT ![c] = "fetch_loop"]
            /\ lockHolder' = [lockHolder EXCEPT !["TOPIC_ID_NAME_MAP"] = 0]
    /\ UNCHANGED <<hreq, hresp, poisoned>>
    /\ HandlerFrame

\* read_record_batches(topic_log_file).expect(..) for partition j of topic i.
\* Ok: resp_topic is pushed; after the last partition the `if let` ends and the
\* guard is dropped. Err: expect panics, the unwinding drops the guard and the
\* mutex is poisoned
FetchReadLog(c) ==
    /\ hpc[c] = "read_record_batches"
    /\ \E r \in {read_record_batches(files,
                    <<TOPIC_ID_NAME_MAP[hreq[c].body.topics.items[hidx[c].i].topic_id],
                      hreq[c].body.topics.items[hidx[c].i].partitions.items[hidx[c].j]
                          .partition_index>>)} :
          IF r.st = "ok"
          THEN /\ hidx' = [hidx EXCEPT ![c] =
                      [i |-> IF @.j < Len(hreq[c].body.topics.items[@.i].partitions.items)
                             THEN @.i ELSE @.i + 1,
                       j |-> IF @.j < Len(hreq[c].body.topics.items[@.i].partitions.items)
                             THEN @.j + 1 ELSE 0,
                       acc |-> Append(@.acc, execute_fetch_partition(
                                   hreq[c].body.topics.items[@.i],
                                   hreq[c].body.topics.items[@.i].partitions.items[@.j],
                                   r.val))]]
               /\ IF hidx[c].j < Len(hreq[c].body.topics.items[hidx[c].i].partitions.items)
                  THEN UNCHANGED <<hpc, lockHolder>>
                  ELSE /\ hpc' = [hpc EXCEPT ![c] = "fetch_loop"]
                       /\ lockHolder' = [lockHolder EXCEPT !["TOPIC_ID_NAME_MAP"] = 0]
               /\ UNCHANGED poisoned
          ELSE /\ hpc' = [hpc EXCEPT ![c] = "panic_read_expect"]
               /\ lockHolder' = [lockHolder EXCEPT !["TOPIC_ID_NAME_MAP"] = 0]
               /\ poisoned' = [poisoned EXCEPT !["TOPIC_ID_NAME_MAP"] = TRUE]
               /\ UNCHANGED hidx
    /\ UNCHANGED <<hreq, hresp>>
    /\ HandlerFrame

\* after the loop: the response is returned
FetchReturn(c) ==
    /\ hpc[c] = "fetch_loop"
    /\ hidx[c].i > Len(hreq[c].body.topics.items)
    /\ hresp' = [hresp EXCEPT ![c] = <<execute_fetch_response(hreq[c].header, hidx[c].acc)>>]
    /\ hidx' = [hidx EXCEPT ![c] = NoLoop]
    /\ hpc' = [hpc EXCEPT ![c] = "idle"]
    /\ UNCHANGED <<hreq, lockHolder, poisoned>>
    /\ HandlerFrame

HandlerNext ==
    \/ \E c \in Conns : Dispatch(c)
    \/ \E c \in Conns : ExecuteApiVersions(c)
    \/ \E c \in Conns : DescribeStart(c)
    \/ \E c \in Conns : DescribeLock(c)
    \/ \E c \in Conns : DescribeLookup(c)
    \/ \E c \in Conns : DescribeReturn(c)
    \/ \E c \in Conns : FetchStart(c)
    \/ \E c \in Conns : FetchLock(c)
    \/ \E c \in Conns : FetchLookup(c)
    \/ \E c \in Conns : FetchReadLog(c)
    \/ \E c \in Conns : FetchReturn(c)

HandlerSpec == HandlerInit /\ [][HandlerNext]_vars

\* ------------------------------------------- encode and decode, value by value

\* the sequences over S of length 0..n
SeqsUpTo(S, n) == UNION {[1..k -> S] : k \in 0..n}

\* s1 \o s2 \o ... for a sequence of sequences
RECURSIVE Concat(_)
Concat(ss) == IF ss = <<>> THEN <<>> ELSE Head(ss) \o Concat(Tail(ss))

\* the characters strings are made of, as UTF-8: "a", NUL, U+00E9, U+20AC
Chars == {<<97>>, <<0>>, <<195, 169>>, <<226, 130, 172>>}

\* the lengths at which a length prefix changes shape: the zig-zag VarInt of 64,
\* the VarInt of 127 + 1 and the fixed-width prefix of 256 take a second byte
LongLens == {63, 64, 126, 127, 128, 300}

\* String values: every string of up to MaxLen characters, and long ones
Strings ==
    {Concat(cs) : cs \in SeqsUpTo(Chars, MaxLen)}
        \cup {[i \in 1..n |-> 97] : n \in LongLens}

\* Vec<u8> values: every byte string over 00, 80 and FF of up to MaxLen bytes,
\* and long ones
ByteStrings ==
    SeqsUpTo({0, 128, 255}, MaxLen) \cup {[i \in 1..n |-> 255] : n \in LongLens}

\* Option<T> values over the T values S
Options(S) == {[some |-> FALSE, items |-> <<>>]} \cup {[some |-> TRUE, items |-> v] : v \in S}

\* what follows the encoded value in the buffer it is decoded from
Trailers == {<<>>, <<0>>, <<255, 1>>}

\* the containers of a String or Vec<u8>, and the values each is given
PlainInputs ==
    ({"KafkaString", "CompactString"} \X Strings)
        \cup ({"KafkaBytes", "CompactBytes"} \X ByteStrings)

\* the containers of an Option, and the values each is given
OptionInputs ==
    ({"NullableString", "CompactNullableString"} \X Options(Strings))
        \cup ({"NullableBytes", "CompactNullableBytes", "RecordKey"}
                  \X Options(ByteStrings))
        \cup ({"Array<i32>", "CompactArray<i32>"}
                  \X Options(SeqsUpTo({-1, 0, 1}, MaxLen)))

\* the codec states that hold a value of `inputs` not yet encoded
Drawn(inputs) ==
    {[pc |-> "value", ty |-> i[1], val |-> i[2], trailer |-> t,
      bytes |-> <<>>, res |-> Incomplete, again |-> <<>>] :
        i \in inputs, t \in Trailers}

\* a value of one of the containers, and the bytes that will follow its encoding
CodecInit ==
    /\ listener = "start"
    /\ indexInit = "not_run"
    /\ logFileExists = FALSE
    /\ script = [c \in Conns |-> <<>>]
    /\ delivered = [c \in Conns |-> 0]
    /\ pc = [c \in Conns |-> "idle"]
    /\ buffer = [c \in Conns |-> <<>>]
    /\ request = [c \in Conns |-> NoRequest]
    /\ response = [c \in Conns |-> NoResponse]
    /\ served = [c \in Conns |-> <<>>]
    /\ out = [c \in Conns |-> <<>>]
    /\ HandlersIdle
    /\ metadataLog = MetadataLogUnread(<<>>)
    /\ \/ codec \in Drawn(PlainInputs)
       \/ codec \in Drawn(OptionInputs)

CodecFrame ==
    UNCHANGED <<listener, indexInit, logFileExists, connVars, handlerVars, metadataLog>>

\* Encode::encode of the value
CodecEncode ==
    /\ codec.pc = "value"
    /\ codec' = [codec EXCEPT !.pc = "encoded", !.bytes = Encode(codec.ty, codec.val)]
    /\ CodecFrame

\* Decode::decode from a cursor at the start of the encoding and what follows it
CodecDecode ==
    /\ codec.pc = "encoded"
    /\ codec' = [codec EXCEPT !.pc = "decoded",
                              !.res = Decode(codec.ty, codec.bytes \o codec.trailer, 0)]
    /\ CodecFrame

\* Encode::encode of the decoded value
CodecReencode ==
    /\ codec.pc = "decoded"
    /\ codec.res.st = "ok"
    /\ codec' = [codec EXCEPT !.pc = "reencoded",
                              !.again = Encode(codec.ty, codec.res.val)]
    /\ CodecFrame

CodecNext == CodecEncode \/ CodecDecode \/ CodecReencode

CodecSpec == CodecInit /\ [][CodecNext]_vars

\* --------------------------------------------- request messages written out

\* the requests written: request_api_versions of a few versions, and the same
\* message with other client ids, versions and a message_size already set
RequestMessages ==
    {request_api_versions(v) : v \in {0, 4, 5}}
        \cup {request_api_versions_with(m, 4, id, sv) :
                  m \in {0, 7}, id \in {<<>>, <<107>>, myclient},
                  sv \in {<<>>, version_0_1}}

RequestInit ==
    /\ listener = "start"
    /\ indexInit = "not_run"
    /\ logFileExists = FALSE
    /\ script = [c \in Conns |-> <<>>]
    /\ delivered = [c \in Conns |-> 0]
    /\ pc = [c \in Conns |-> "idle"]
    /\ buffer = [c \in Conns |-> <<>>]
    /\ request = [c \in Conns |-> NoRequest]
    /\ response = [c \in Conns |-> NoResponse]
    /\ served = [c \in Conns |-> <<>>]
    /\ out = [c \in Conns |-> <<>>]
    /\ HandlersIdle
    /\ metadataLog = MetadataLogUnread(<<>>)
    /\ codec \in Drawn({"RequestMessage"} \X RequestMessages)

\* Connection::write_request: request.as_bytes()
RequestAsBytes ==
    /\ codec.pc = "value"
    /\ codec' = [codec EXCEPT !.pc = "encoded",
                              !.bytes = RequestMessage_as_bytes(codec.val)]
    /\ CodecFrame

\* RequestMessage::decode from a cursor at the start of the bytes written and
\* what follows them
RequestDecode ==
    /\ codec.pc = "encoded"
    /\ codec' = [codec EXCEPT !.pc = "decoded",
                              !.res = RequestMessage_decode(codec.bytes \o codec.trailer, 0)]
    /\ CodecFrame

RequestNext == RequestAsBytes \/ RequestDecode

RequestSpec == RequestInit /\ [][RequestNext]_vars

\* ------------------------------------------------- the controller metadata log

\* the eight big-endian bytes of an i64 that fits an i32
i64_bytes(n) ==
    (IF n >= 0 THEN <<0, 0, 0, 0>> ELSE <<255, 255, 255, 255>>) \o i32_encode(n)

\* the 16 bytes of a Uuid whose value is below 256
Uuid_bytes(id) == [k \in 1..15 |-> 0] \o <<id>>

\* a record as it lies in the file: length, attributes, timestamp and offset
\* deltas, an empty key, the value behind its length, no headers
RecordBytes(value) ==
    VarInt_from_i64(Len(value) + 6) \o <<0, 0, 0>> \o <<1>>
        \o VarInt_from_i64(Len(value)) \o value \o <<0>>

\* the value of a topic record: frame version, type, version, name, id, tags
TopicRecordBytes(name, id) ==
    <<1, TOPIC_RECORD, 0>> \o VarInt_from_u64(Len(name) + 1) \o name
        \o Uuid_bytes(id) \o <<0>>

\* the value of a partition record of topic `id` led by broker 1, kept in one
\* directory
PartitionRecordBytes(index, id) ==
    <<1, PARITION_RECORD, 1>> \o i32_encode(index) \o Uuid_bytes(id)
        \o <<2>> \o i32_encode(1) \o <<2>> \o i32_encode(1) \o <<1>> \o <<1>>
        \o i32_encode(1) \o i32_encode(0) \o i32_encode(0)
        \o <<2>> \o Uuid_bytes(16) \o <<0>>

\* the value of a feature level record named "mv"
FeatureLevelRecordBytes ==
    <<1, FEATURE_LEVEL_RECORD, 0>> \o <<3, 109, 118>> \o i16_encode(20) \o <<0>>

\* the value of a record whose type the reader does not know
UnknownRecordBytes == <<1, 21, 0, 7, 7>>

\* a batch as it lies in the file, with attributes `attributes` and the records
\* whose bytes are `records`
BatchBytes(base_offset, attributes, records) ==
    i64_bytes(base_offset) \o i32_encode(49 + Len(Concat(records))) \o i32_encode(1)
        \o <<2>> \o i32_encode(1515870810) \o u16_encode(attributes)
        \o i32_encode(Len(records) - 1) \o i64_bytes(1726045943) \o i64_bytes(1726045943)
        \o i64_bytes(-1) \o i16_encode(-1) \o i32_encode(-1)
        \o i32_encode(Len(records)) \o Concat(records)

\* topic foo with its partitions 0 and 1
FooBatch ==
    BatchBytes(1, 0, << RecordBytes(TopicRecordBytes(foo, foo_info.id)),
                        RecordBytes(PartitionRecordBytes(0, foo_info.id)),
                        RecordBytes(PartitionRecordBytes(1, foo_info.id)) >>)

\* a batch without topic or partition records
FeatureBatch ==
    BatchBytes(4, 0, << RecordBytes(FeatureLevelRecordBytes),
                        RecordBytes(UnknownRecordBytes) >>)

\* topic bar with its partition 0
BarBatch ==
    BatchBytes(6, 0, << RecordBytes(TopicRecordBytes(bar, 2)),
                        RecordBytes(PartitionRecordBytes(0, 2)) >>)

\* a batch whose attributes have a bit no flag of MetadataAttributes names
BadAttributesBatch ==
    BatchBytes(6, 256, << RecordBytes(TopicRecordBytes(bar, 2)) >>)

\* a batch whose topic record has a name of length 0 (a null compact string)
NullNameBatch ==
    BatchBytes(6, 0, << RecordBytes(<<1, TOPIC_RECORD, 0>> \o <<0>>
                                        \o Uuid_bytes(2) \o <<0>>) >>)

\* a batch whose unknown record announces a value that begins before the file
BadSeekBatch ==
    BatchBytes(6, 0, << VarInt_from_i64(9) \o <<0, 0, 0>> \o <<1>>
                            \o VarInt_from_i64(-2000) \o <<1, 21, 0>> \o <<0>> >>)

WholeLog == FooBatch \o FeatureBatch \o BarBatch

\* a log whose second batch adds partition 1 to the topic foo of its first batch
LaterPartitionLog ==
    BatchBytes(1, 0, << RecordBytes(TopicRecordBytes(foo, foo_info.id)),
                        RecordBytes(PartitionRecordBytes(0, foo_info.id)) >>)
        \o BatchBytes(3, 0, << RecordBytes(PartitionRecordBytes(1, foo_info.id)) >>)

\* the files init_read_metadata_log is run on: a well-formed log, each of its
\* truncations, and logs whose last batch is malformed
LogFiles ==
    {SubSeq(WholeLog, 1, n) : n \in 0..Len(WholeLog)}
        \cup {FooBatch \o FeatureBatch \o b :
                b \in {BadAttributesBatch, NullNameBatch, BadSeekBatch}}
        \cup {BadAttributesBatch \o FooBatch}
        \cup {LaterPartitionLog}

InitInit ==
    /\ listener = "start"
    /\ indexInit = "not_run"
    /\ logFileExists \in BOOLEAN
    /\ script = [c \in Conns |-> <<>>]
    /\ delivered = [c \in Conns |-> 0]
    /\ pc = [c \in Conns |-> "idle"]
    /\ buffer = [c \in Conns |-> <<>>]
    /\ request = [c \in Conns |-> NoRequest]
    /\ response = [c \in Conns |-> NoResponse]
    /\ served = [c \in Conns |-> <<>>]
    /\ out = [c \in Conns |-> <<>>]
    /\ HandlersIdle
    /\ codec = CodecIdle
    /\ \E file \in (IF logFileExists THEN LogFiles ELSE {<<>>}) :
           metadataLog = MetadataLogUnread(file)

InitFrame ==
    UNCHANGED <<listener, logFileExists, connVars, hpc, hreq, hidx, hresp, lockHolder,
                poisoned, TOPIC_ID_NAME_MAP, files, codec>>

\* init_read_metadata_log: a missing file is a panic; otherwise fs::read and a
\* cursor at the start of the bytes
InitOpen ==
    /\ indexInit = "not_run"
    /\ indexInit' = IF logFileExists THEN "decoding" ELSE "panicked"
    /\ UNCHANGED <<TOPIC_PARTITIONS, metadataLog>>
    /\ InitFrame

\* init_topic_partitions, the body of `for record in records`: a topic record
\* names the TopicInfo, a partition record appends a TopicPartition to it
RECURSIVE topic_info_of(_, _)
topic_info_of(records, acc) ==
    IF records = <<>> THEN acc
    ELSE topic_info_of(Tail(records),
            CASE Head(records).value.variant = "Topic" ->
                    [acc EXCEPT !.found = TRUE,
                                !.info.name = Head(records).value.record.name,
                                !.info.id = Head(records).value.record.id]
              [] Head(records).value.variant = "Partition" ->
                    [acc EXCEPT !.found = TRUE,
                                !.info.partitions_array.items =
                                    Append(@, [error_code |-> 0,
                                               index |-> Head(records).value.record.parition_id,
                                               leader_id |-> Head(records).value.record.leader_id,
                                               leader_epoch |-> Head(records).value.record.leader_epoch,
                                               repica_nodes |-> Head(records).value.record.replica_nodes,
                                               isr_nodes |-> Head(records).value.record.isr_nodes,
                                               eligible_leader_replicas |-> CompactArray_empty,
                                               last_known_elr |-> CompactArray_empty,
                                               offline_replicas |-> CompactArray_empty,
                                               tag_buffer |-> Head(records).value.record.tag_buffers])]
              [] OTHER -> acc)

\* init_topic_partitions: the TopicInfo a batch starts from
TopicInfo_unnamed ==
    [found |-> FALSE,
     info |-> [name |-> <<>>, id |-> Uuid_nil, is_internal |-> FALSE,
               partitions_array |-> CompactArray_empty,
               topic_authorized_operations |-> TopicAuthorizedOperations_default]]

\* init_topic_partitions, the body of `for record_batch in ..`: the index after
\* the batch, whose TopicInfo is inserted under its name if the batch had a topic
\* or partition record
topic_partitions_with(index, record_batch) ==
    IF topic_info_of(record_batch.records.items, TopicInfo_unnamed).found
    THEN (topic_info_of(record_batch.records.items, TopicInfo_unnamed).info.name
              :> topic_info_of(record_batch.records.items, TopicInfo_unnamed).info)
         @@ index
    ELSE index

\* a loader that indexes each batch as soon as it is decoded
InitDecode_eager ==
    /\ indexInit = "decoding"
    /\ metadataLog.pos < Len(metadataLog.file)
    /\ \E r \in {Decode("RecordBatch", metadataLog.file, metadataLog.pos)} :
          CASE r.st = "ok" ->
                  /\ metadataLog' = [metadataLog EXCEPT
                                        !.pos = r.pos,
                                        !.record_batches = Append(@, r.val)]
                  /\ TOPIC_PARTITIONS' = topic_partitions_with(TOPIC_PARTITIONS, r.val)
                  /\ UNCHANGED indexInit
            [] r.st = "panic" ->
                  /\ indexInit' = "panicked"
                  /\ UNCHANGED <<TOPIC_PARTITIONS, metadataLog>>
            [] OTHER ->
                  /\ indexInit' = "failed"
                  /\ UNCHANGED <<TOPIC_PARTITIONS, metadataLog>>
    /\ InitFrame

\* init_read_metadata_log, one turn of `while buffer.has_remaining()`:
\* RecordBatch::decode(&mut buffer)? returns the error at once, a panic inside
\* the decoder unwinds, and a decoded batch is pushed onto record_batches
InitDecode ==
    /\ indexInit = "decoding"
    /\ metadataLog.pos < Len(metadataLog.file)
    /\ \E r \in {Decode("RecordBatch", metadataLog.file, metadataLog.pos)} :
          CASE r.st = "ok" ->
                  /\ metadataLog' = [metadataLog EXCEPT
                                        !.pos = r.pos,
                                        !.record_batches = Append(@, r.val)]
                  /\ UNCHANGED <<indexInit, TOPIC_PARTITIONS>>
            [] r.st = "panic" ->
                  /\ indexInit' = "panicked"
                  /\ UNCHANGED <<TOPIC_PARTITIONS, metadataLog>>
            [] OTHER ->
                  /\ indexInit' = "failed"
                  /\ UNCHANGED <<TOPIC_PARTITIONS, metadataLog>>
    /\ InitFrame

\* init_read_metadata_log: the loop ends when no byte remains; MetadataLog::new
\* and the call of init_topic_partitions
InitLoad ==
    /\ indexInit = "decoding"
    /\ ~(metadataLog.pos < Len(metadataLog.file))
    /\ indexInit' = "loading"
    /\ UNCHANGED <<TOPIC_PARTITIONS, metadataLog>>
    /\ InitFrame

\* init_topic_partitions, one turn of `for record_batch in ..`
InitTopicPartitions ==
    /\ indexInit = "loading"
    /\ metadataLog.next <= Len(metadataLog.record_batches)
    /\ TOPIC_PARTITIONS' =
          topic_partitions_with(TOPIC_PARTITIONS,
                                metadataLog.record_batches[metadataLog.next])
    /\ metadataLog' = [metadataLog EXCEPT !.next = @ + 1]
    /\ UNCHANGED indexInit
    /\ InitFrame

\* init_read_metadata_log returns Ok(())
InitDone ==
    /\ indexInit = "loading"
    /\ metadataLog.next > Len(metadataLog.record_batches)
    /\ indexInit' = "ok"
    /\ UNCHANGED <<TOPIC_PARTITIONS, metadataLog>>
    /\ InitFrame

InitNext == InitOpen \/ InitDecode \/ InitLoad \/ InitTopicPartitions \/ InitDone

InitSpec == InitInit /\ [][InitNext]_vars

\* ------------------------------------------------- record values read from bytes

\* a record value as it lies in a record: the length, then the bytes
ValueBytes(value) == VarInt_from_i64(Len(value)) \o value

\* the record values decoded: a topic, a partition and a feature level record;
\* records of an unknown type, one of them of the two peeked bytes only; a topic
\* record followed, inside its length, by two bytes TopicRecord does not have;
\* an unknown record whose length 5 is written in two bytes; one whose length
\* is negative; a topic record whose name is not UTF-8; an unknown record cut
\* short
RecordValues ==
    {ValueBytes(TopicRecordBytes(foo, foo_info.id)),
     ValueBytes(PartitionRecordBytes(0, foo_info.id)),
     ValueBytes(FeatureLevelRecordBytes),
     ValueBytes(UnknownRecordBytes),
     ValueBytes(<<1, 21>>),
     ValueBytes(TopicRecordBytes(foo, foo_info.id) \o <<9, 9>>),
     <<138, 0>> \o UnknownRecordBytes,
     VarInt_from_i64(-3) \o UnknownRecordBytes,
     ValueBytes(<<1, TOPIC_RECORD, 0, 3, 255, 255>> \o Uuid_bytes(2) \o <<0>>),
     VarInt_from_i64(5) \o <<1, 21, 0>>}

\* the two RecordValue types of the sources
RecordValueTypes == {"RecordValue", "common_struct::RecordValue"}

\* the bytes of a record value and of what follows it in the record
RecordInit ==
    /\ listener = "start"
    /\ indexInit = "not_run"
    /\ logFileExists = FALSE
    /\ script = [c \in Conns |-> <<>>]
    /\ delivered = [c \in Conns |-> 0]
    /\ pc = [c \in Conns |-> "idle"]
    /\ buffer = [c \in Conns |-> <<>>]
    /\ request = [c \in Conns |-> NoRequest]
    /\ response = [c \in Conns |-> NoResponse]
    /\ served = [c \in Conns |-> <<>>]
    /\ out = [c \in Conns |-> <<>>]
    /\ HandlersIdle
    /\ metadataLog = MetadataLogUnread(<<>>)
    /\ \E ty \in RecordValueTypes, bytes \in RecordValues, t \in Trailers :
          codec = [pc |-> "encoded", ty |-> ty, val |-> <<>>, trailer |-> t,
                   bytes |-> bytes, res |-> Incomplete, again |-> <<>>]

RecordNext == CodecDecode \/ CodecReencode

RecordSpec == RecordInit /\ [][RecordNext]_vars

\* ------------------------------------------------ strings read from bytes

\* the two decoders of a string behind a length + 1 prefix: CompactString
\* (common_struct.rs) and String (decode.rs)
CompactStringTypes == {"CompactString", "String"}

\* what a string is decoded from: the prefixes 0 and 1 in one byte and in two,
\* "a", U+00E9, a string cut short, bytes that are not UTF-8, and nothing
StringBytes ==
    {<<0>>, <<1>>, <<128, 0>>, <<129, 0>>, <<2, 97>>, <<3, 195, 169>>, <<3, 97>>,
     <<2, 255>>, <<>>}

StringInit ==
    /\ listener = "start"
    /\ indexInit = "not_run"
    /\ logFileExists = FALSE
    /\ script = [c \in Conns |-> <<>>]
    /\ delivered = [c \in Conns |-> 0]
    /\ pc = [c \in Conns |-> "idle"]
    /\ buffer = [c \in Conns |-> <<>>]
    /\ request = [c \in Conns |-> NoRequest]
    /\ response = [c \in Conns |-> NoResponse]
    /\ served = [c \in Conns |-> <<>>]
    /\ out = [c \in Conns |-> <<>>]
    /\ HandlersIdle
    /\ metadataLog = MetadataLogUnread(<<>>)
    /\ \E ty \in CompactStringTypes, bytes \in StringBytes, t \in Trailers :
          codec = [pc |-> "encoded", ty |-> ty, val |-> <<>>, trailer |-> t,
                   bytes |-> bytes, res |-> Incomplete, again |-> <<>>]

StringSpec == StringInit /\ [][RecordNext]_vars

\* ---------------------------------------------------- the VarInt conversions

\* 2^k and 2^k - 1 as u64
u64_bit(k) == [i \in 1..U64_BITS |-> IF i = k + 1 THEN 1 ELSE 0]

u64_ones(k) == [i \in 1..U64_BITS |-> IF i <= k THEN 1 ELSE 0]

\* numbers below 2^31 around the lengths of one to five bytes
SmallNumbers ==
    {0, 1, 2, 63, 64, 127, 128, 130, 150, 300, 16383, 16384, 2097151, 2097152,
     268435455, 268435456, 2147483647}

\* the u64 values converted: small numbers, the powers of two around each
\* further byte and their predecessors up to u64::MAX, and the complements of
\* the small numbers (as i64: -1 - v)
U64Values ==
    {u64_from(v) : v \in SmallNumbers}
        \cup {u64_bit(k) : k \in {31, 32, 34, 35, 41, 42, 48, 49, 55, 56, 62, 63}}
        \cup {u64_ones(k) : k \in {32, 35, 42, 49, 56, 63, 64}}
        \cup {bitxor(u64_ones(U64_BITS), u64_from(v)) : v \in SmallNumbers}

\* the byte strings given to VarInt::new
VarIntBytes ==
    {<<0>>, <<1>>, <<130, 1>>, <<150, 1>>, <<146, 1>>, <<128, 0>>,
     <<255, 255, 255, 255, 15>>, <<255, 255, 255, 255, 255, 1>>,
     <<255, 255, 255, 255, 255, 255, 255, 255, 255, 1>>}

VarIntInit ==
    /\ listener = "start"
    /\ indexInit = "not_run"
    /\ logFileExists = FALSE
    /\ script = [c \in Conns |-> <<>>]
    /\ delivered = [c \in Conns |-> 0]
    /\ pc = [c \in Conns |-> "idle"]
    /\ buffer = [c \in Conns |-> <<>>]
    /\ request = [c \in Conns |-> NoRequest]
    /\ response = [c \in Conns |-> NoResponse]
    /\ served = [c \in Conns |-> <<>>]
    /\ out = [c \in Conns |-> <<>>]
    /\ HandlersIdle
    /\ metadataLog = MetadataLogUnread(<<>>)
    /\ \/ \E n \in U64Values, kind \in {"u64", "i64"} :
             codec = [pc |-> "value", kind |-> kind, n |-> n, bytes |-> <<>>,
                      back |-> u64_from(0), res |-> Incomplete]
       \/ \E bytes \in VarIntBytes :
             codec = [pc |-> "bytes", kind |-> "bytes", n |-> u64_from(0),
                      bytes |-> bytes, back |-> u64_from(0), res |-> Incomplete]

\* VarInt::from_u64
VarIntFromU64 ==
    /\ codec.pc = "value"
    /\ codec.kind = "u64"
    /\ codec' = [codec EXCEPT !.pc = "bytes", !.bytes = VarInt_from_u64_wide(codec.n)]
    /\ CodecFrame

\* VarInt::from_i64
VarIntFromI64 ==
    /\ codec.pc = "value"
    /\ codec.kind = "i64"
    /\ codec' = [codec EXCEPT !.pc = "bytes", !.bytes = VarInt_from_i64_wide(codec.n)]
    /\ CodecFrame

\* VarInt::as_u64
VarIntAsU64 ==
    /\ codec.pc = "bytes"
    /\ codec.kind \in {"u64", "bytes"}
    /\ codec' = [codec EXCEPT !.pc = "back", !.back = VarInt_as_u64_wide(codec.bytes)]
    /\ CodecFrame

\* VarInt::as_i64
VarIntAsI64 ==
    /\ codec.pc = "bytes"
    /\ codec.kind = "i64"
    /\ codec' = [codec EXCEPT !.pc = "back", !.back = VarInt_as_i64_wide(codec.bytes)]
    /\ CodecFrame

\* VarInt::decode from a cursor at the start of the bytes
VarIntDecode ==
    /\ codec.pc = "back"
    /\ codec' = [codec EXCEPT !.pc = "decoded", !.res = VarInt_decode(codec.bytes, 0)]
    /\ CodecFrame

VarIntNext ==
    VarIntFromU64 \/ VarIntFromI64 \/ VarIntAsU64 \/ VarIntAsI64 \/ VarIntDecode

VarIntSpec == VarIntInit /\ [][VarIntNext]_vars

\* ================================================================ properties

\* the concatenation of a sequence of chunks
RECURSIVE Flatten(_)
Flatten(chunks) ==
    IF chunks = <<>> THEN <<>> ELSE Head(chunks) \o Flatten(Tail(chunks))

\* the bytes connection c has read from its socket, and those still to come
Delivered(c) == Flatten(SubSeq(script[c], 1, delivered[c]))

Undelivered(c) == Flatten(SubSeq(script[c], delivered[c] + 1, Len(script[c])))

\* Connection::read_request run to its return, the socket reads returning `chunks`
RECURSIVE read_request(_, _)
read_request(buf, chunks) ==
    CASE parse_request(buf).st = "some" ->
            [st |-> "some", request |-> parse_request(buf).request,
             buffer |-> parse_request(buf).buffer]
      [] parse_request(buf).st = "none" ->
            IF chunks # <<>> THEN read_request(buf \o Head(chunks), Tail(chunks))
            ELSE IF buf = <<>> THEN [st |-> "eof"] ELSE [st |-> "reset"]
      [] parse_request(buf).st = "err" -> [st |-> "err"]
      [] OTHER -> [st |-> "panic"]

\* read_request when all the bytes of c's peer come in one socket read
Whole(c) ==
    read_request(<<>>, IF Flatten(script[c]) = <<>> THEN <<>> ELSE <<Flatten(script[c])>>)

\* the first call of read_request on connection c has returned
FirstReturn(c) ==
    \/ pc[c] = "execute_request" /\ Len(served[c]) = 1
    \/ pc[c] \in {"closed", "panic_decode_error", "panic_reset", "panic_in_decode"}
       /\ Len(served[c]) = 0

\* how read_request returned, read off the position of the task
Outcome(c) ==
    CASE pc[c] = "execute_request" -> "some"
      [] pc[c] = "closed" -> "eof"
      [] pc[c] = "panic_reset" -> "reset"
      [] pc[c] = "panic_decode_error" -> "err"
      [] pc[c] = "panic_in_decode" -> "panic"

\* C1: however the bytes b of a peer are split over two socket reads, the first
\* read_request returns what it returns when b comes in one read: the same
\* request, the same remaining bytes (those in the buffer and, when the request
\* was complete before the second read, those not yet read), or the same failure
C1_IncrementalParse ==
    \A c \in Conns :
        FirstReturn(c) =>
            /\ Outcome(c) = Whole(c).st
            /\ Whole(c).st = "some" =>
                  /\ request[c] = Whole(c).request
                  /\ buffer[c] \o Undelivered(c) = Whole(c).buffer

\* a frame split in its middle has been read in two reads and parsed
C1_Witness ==
    /\ Len(script[1]) = 2
    /\ Flatten(script[1]) = Good
    /\ Len(script[1][1]) = MidFrame
    /\ delivered[1] = 2
    /\ pc[1] = "execute_request"
    /\ buffer[1] = <<>>

\* the requests framed back to back in buf from pos on; r is the result of
\* decoding at pos
RECURSIVE DecodeAll(_, _), DecodeRest(_, _)
DecodeRest(buf, r) ==
    IF r.st # "ok" THEN <<>> ELSE <<r.val>> \o DecodeAll(buf, r.pos)

DecodeAll(buf, pos) == DecodeRest(buf, RequestMessage_decode(buf, pos))

IsPrefix(s, t) == Len(s) <= Len(t) /\ SubSeq(t, 1, Len(s)) = s

\* C2: on each connection the requests are served in the order their frames
\* arrived (each request handed to the dispatcher extends a prefix of the frames
\* read so far), the i-th response written answers the i-th request, and when
\* the task turns to the buffer for the next request every request served so
\* far has had its response written and flushed
C2_InOrder ==
    \A c \in Conns :
        /\ pc[c] = "execute_request" => IsPrefix(served[c], DecodeAll(Delivered(c), 0))
        /\ Len(out[c]) <= Len(served[c])
        /\ Len(served[c]) <= Len(out[c]) + 1
        /\ pc[c] \in {"parse_request", "read_buf"} => Len(out[c]) = Len(served[c])
        /\ \A i \in 1..Len(out[c]) :
              SubSeq(out[c][i], 5, 8) = i32_encode(served[c][i].header.correlation_id)

\* two requests came in one socket read and both have been answered
C2_Witness ==
    \E c \in Conns :
        /\ script[c] = <<Good \o Unsupported>>
        /\ Len(out[c]) = 2
        /\ pc[c] = "parse_request"

\* a request whose handling reads no partition log that is missing
ReadsReadableLogs(req) == req # FetchUnreadable

C4_ErrorHandling ==
    \A c \in Conns :
        /\ pc[c] = "panic_decode_error" => Len(out[c]) = Len(served[c])
        /\ script[c] = <<DescribeFooFrame>> => pc[c] \notin PanicPcs

\* C5: a connection is accepted only after the metadata-log index has been
\* initialised successfully, and never when the controller log file is missing
C5_InitBeforeAccept ==
    \A c \in Conns :
        pc[c] # "idle" => (indexInit = "ok" /\ logFileExists)

IsApiVersions(req) == req.header.request_api_key = API_VERSIONS_API_INFO.api_key

VersionInRange(req) ==
    /\ req.header.request_api_version >= 0
    /\ req.header.request_api_version <= 4

\* C7: the response to an ApiVersions request of version 0..4 has error_code 0,
\* throttle_time_ms 0 and exactly the entries {1,0,16}, {18,0,4}, {75,0,0} in
\* this order
C7_SupportedApis ==
    \A c \in Conns :
        (pc[c] = "write_response" /\ IsApiVersions(request[c])
           /\ VersionInRange(request[c])) =>
            /\ response[c].body.error_code = 0
            /\ response[c].body.throttle_time_ms = 0
            /\ response[c].body.api_keys
                  = <<ApiKey_new(1, 0, 16), ApiKey_new(18, 0, 4), ApiKey_new(75, 0, 0)>>

\* the body bytes of the UNSUPPORTED_VERSION response: error_code 35, an array
\* of no element (length + 1 = 1, not the null 0), throttle_time_ms 0, no tags
UnsupportedVersionBody == <<0, 35, 1, 0, 0, 0, 0, 0>>

\* C8: the response written for an ApiVersions request of a version outside
\* 0..4 carries the request's correlation_id and the body error_code 35, empty
\* non-null api_keys, throttle_time_ms 0, empty tag buffer; the handler of
\* api_versions.rs returns the same for that request
C8_UnsupportedVersion ==
    \A c \in Conns : \A i \in 1..Len(out[c]) :
        (IsApiVersions(served[c][i]) /\ ~VersionInRange(served[c][i])) =>
            /\ SubSeq(out[c][i], 5, 8) = i32_encode(served[c][i].header.correlation_id)
            /\ SubSeq(out[c][i], Len(out[c][i]) - 7, Len(out[c][i])) = UnsupportedVersionBody
            /\ SubSeq(out[c][i], 1, 4) = u32_encode(Len(out[c][i]) - 4)
            /\ \A m \in {api_versions_execute_api_verions(served[c][i].header, order) :
                            order \in Orders(api_versions_SUPPORT_APIS)} :
                  /\ m.body = ApiVersionsResponseBodyV4_new(35, Some(<<>>), 0,
                                                            [fields |-> None])
                  /\ m.header.correlation_id = served[c][i].header.correlation_id
                  /\ ResponseBody_encode(m.body) = UnsupportedVersionBody

\* an ApiVersions request of version 99 has been answered
C8_Witness ==
    \E c \in Conns :
        /\ Len(out[c]) >= 1
        /\ IsApiVersions(served[c][1])
        /\ served[c][1].header.request_api_version = 99

\* C9: an ApiVersions response is written with the v0 header, the
\* correlation_id alone; a successful DescribeTopicPartitions or Fetch response
\* has the v1 header, the correlation_id followed by a tag buffer
C9_HeaderVersions ==
    \A c \in Conns :
        /\ (pc[c] = "write_response" /\ IsApiVersions(request[c])) =>
              ResponseHeader_encode(response[c].header)
                 = i32_encode(request[c].header.correlation_id)
        /\ (hresp[c] # <<>> /\ ~IsApiVersions(hreq[c])
              /\ hresp[c][1].body.kind # "ApiVersionsResponseBodyV4") =>
              ResponseHeader_encode(hresp[c][1].header)
                 = i32_encode(hreq[c].header.correlation_id) \o <<0>>

Answered(c, key) ==
    /\ hresp[c] # <<>>
    /\ hreq[c].header.request_api_key = key.api_key
    /\ hreq[c].header.request_api_version >= key.min_version
    /\ hreq[c].header.request_api_version <= key.max_version

Mismatched(c, key) ==
    /\ hreq[c] # NoRequest
    /\ hreq[c].header.request_api_key = key.api_key
    /\ \/ hreq[c].header.request_api_version < key.min_version
       \/ hreq[c].header.request_api_version > key.max_version

EntriesOf(resp, id) ==
    SelectSeq(resp.body.responses.items, LAMBDA e : e.topic_id = id)

PartitionsOf(resp, id) ==
    [k \in 1..Len(EntriesOf(resp, id)) |-> EntriesOf(resp, id)[k].partitions.items[1]]

HappyPathResponse ==
    ResponseMessage_as_bytes(
        api_versions_execute_api_verions(
            Header(API_VERSIONS_API_INFO.api_key, 4, CorrIds[1]),
            <<FETCH_API_INFO, API_VERSIONS_API_INFO,
              DESCRIBE_TOPIC_PARTITIONS_API_INFO>>)).bytes

\* C16: the happy-path frame is decoded as a request and answered with the
\* expected response, and the connection task does not abort on it
C16_HappyPath ==
    \A c \in Conns :
        script[c] = <<HappyPathFrame>> =>
            /\ pc[c] \notin PanicPcs
            /\ pc[c] = "closed" => out[c] = <<HappyPathResponse>>

\* C17: when the socket read returns zero bytes, read_request returns Ok(None)
\* (the task ends cleanly) if and only if the buffer is empty, and the error
\* "connection reset by peer" (the task ends on it) if and only if the buffer
\* holds a partial frame; no request is dispatched, nothing is written, and the
\* connection takes no further step
C17_EndOfStream ==
    [][\A c \in Conns :
          /\ (/\ pc[c] = "read_buf"
              /\ delivered[c] = Len(script[c])
              /\ pc'[c] # pc[c]) =>
                 /\ pc'[c] = "closed" <=> buffer[c] = <<>>
                 /\ pc'[c] = "panic_reset" <=> buffer[c] # <<>>
                 /\ served'[c] = served[c]
                 /\ out'[c] = out[c]
          /\ pc[c] \in {"closed", "panic_reset"} =>
                 /\ pc'[c] = pc[c]
                 /\ served'[c] = served[c]
                 /\ out'[c] = out[c]]_vars

\* one connection has ended on a partial frame left in its buffer, another has
\* ended cleanly after its requests were served
C17_Witness ==
    \E c, d \in Conns :
        /\ pc[c] = "panic_reset"
        /\ buffer[c] # <<>>
        /\ pc[d] = "closed"
        /\ out[d] # <<>>

\* the first four bytes of `bytes` are the big-endian count of the bytes after them
SizePrefixed(bytes) ==
    /\ Len(bytes) >= 4
    /\ SubSeq(bytes, 1, 4) = u32_encode(Len(bytes) - 4)

\* C15: the message_size prefix as_bytes produces is the number of bytes of
\* encoded header and body after it: in every message written, in what as_bytes
\* returns for the response the task holds (not yet written, or written
\* already), and in what a further call on the message it leaves returns
C15_MessageSize ==
    \A c \in Conns :
        /\ \A k \in 1..Len(out[c]) : SizePrefixed(out[c][k])
        /\ response[c] # NoResponse =>
              \E w \in {ResponseMessage_as_bytes(response[c])} :
                  /\ SizePrefixed(w.bytes)
                  /\ Len(w.bytes) = 4 + Len(ResponseHeader_encode(response[c].header))
                                      + Len(ResponseBody_encode(response[c].body))
                  /\ w.msg.message_size = Len(w.bytes) - 4
                  /\ ResponseMessage_as_bytes(w.msg).bytes = w.bytes

\* a response has been written and its message, whose message_size is now
\* set, is still held: as_bytes on it is a later call
C15_Witness ==
    \E c \in Conns :
        /\ out[c] # <<>>
        /\ response[c] # NoResponse
        /\ response[c].message_size # 0
        /\ ResponseMessage_as_bytes(response[c]).bytes = out[c][Len(out[c])]

\* the string and bytes containers behind a length prefix
LengthPrefixed ==
    {"KafkaString", "NullableString", "CompactString", "CompactNullableString",
     "KafkaBytes", "NullableBytes", "CompactBytes", "CompactNullableBytes",
     "RecordKey"}

Arrays == {"Array<i32>", "CompactArray<i32>"}

\* C20: a null Array encodes to FF FF FF FF and an empty one to 00 00 00 00, a
\* null CompactArray to 00 and an empty one to 01; decoding the encoding of an
\* array, null and empty included, returns the array it was encoded from
C20_NullAndEmpty ==
    (codec.pc # "idle" /\ codec.ty \in Arrays) =>
        /\ (codec.pc # "value" /\ codec.val = None) =>
              codec.bytes = IF codec.ty = "Array<i32>"
                            THEN <<255, 255, 255, 255>> ELSE <<0>>
        /\ (codec.pc # "value" /\ codec.val = Some(<<>>)) =>
              codec.bytes = IF codec.ty = "Array<i32>" THEN <<0, 0, 0, 0>> ELSE <<1>>
        /\ codec.pc \in {"decoded", "reencoded"} =>
              /\ codec.res.st = "ok"
              /\ codec.res.val = codec.val
              /\ codec.res.pos = Len(codec.bytes)

\* a null Array and an empty CompactArray have been encoded and decoded
C20_Witness ==
    /\ codec.pc = "decoded"
    /\ \/ codec.ty = "Array<i32>" /\ codec.val = None
       \/ codec.ty = "CompactArray<i32>" /\ codec.val = Some(<<>>)

\* init_read_metadata_log on the whole of `file` from `pos`: whether every batch
\* decodes
RECURSIVE log_decodes(_, _)
log_decodes(file, pos) ==
    \/ ~(pos < Len(file))
    \/ /\ Decode("RecordBatch", file, pos).st = "ok"
       /\ log_decodes(file, Decode("RecordBatch", file, pos).pos)

\* C18: if decoding any record batch of the controller log fails,
\* initialisation never gets to load the index nor to return Ok (it is at or
\* before the failing batch, or has ended in an error or a panic), and the topic
\* indices stay empty: batches decoded before the failing one are not loaded
C18_NoPartialLoad ==
    (logFileExists /\ ~log_decodes(metadataLog.file, 0)) =>
        /\ indexInit \in {"not_run", "decoding", "failed", "panicked"}
        /\ TOPIC_PARTITIONS = <<>>
        /\ TOPIC_ID_NAME_MAP = <<>>

\* initialisation failed on a batch after it had decoded a batch with a topic
\* record
C18_Witness ==
    /\ indexInit = "failed"
    /\ \E b \in 1..Len(metadataLog.record_batches) :
          \E r \in 1..Len(metadataLog.record_batches[b].records.items) :
              metadataLog.record_batches[b].records.items[r].value.variant = "Topic"
    /\ TOPIC_PARTITIONS = <<>>

\* C21: VarInt conversions are lossless: from_i64(n).as_i64() = n for every
\* i64 and from_u64(n).as_u64() = n for every u64, every byte of from_u64(n) but
\* the last has its top bit set and the last has not; from_u64(150) is 96 01,
\* from_i64(-1) is 01, and 82 01 read as u64 is 130
C21_Lossless ==
    /\ codec.pc \in {"back", "decoded"} /\ codec.kind \in {"u64", "i64"} =>
          codec.back = codec.n
    /\ codec.pc # "value" /\ codec.kind = "u64" =>
          /\ codec.bytes # <<>>
          /\ \A i \in 1..Len(codec.bytes) :
                (codec.bytes[i] > VARINTS_MASK) <=> (i < Len(codec.bytes))
    /\ codec.pc # "value" /\ codec.kind = "u64" /\ codec.n = u64_from(150) =>
          codec.bytes = <<150, 1>>
    /\ codec.pc # "value" /\ codec.kind = "i64" /\ codec.n = u64_ones(U64_BITS) =>
          codec.bytes = <<1>>
    /\ codec.pc \in {"back", "decoded"} /\ codec.bytes = <<130, 1>> =>
          (codec.kind = "i64" \/ codec.back = u64_from(130))

\* u64::MAX, which takes ten bytes, and i64::MIN have gone through the
\* conversions and back
C21_Witness ==
    /\ codec.pc = "back"
    /\ codec.n \in {u64_ones(U64_BITS), u64_bit(63)}
    /\ Len(codec.bytes) = 10

\* C30: a VarInt occupies at most 5 bytes and denotes a value of the 32-bit
\* range: the encoders never emit more than 5 bytes, VarInt::decode never
\* consumes more than 5 bytes, and the value read has no bit above the 32nd
C30_AtMostFiveBytes ==
    /\ codec.pc # "value" /\ codec.kind \in {"u64", "i64"} => Len(codec.bytes) <= 5
    /\ codec.pc = "decoded" /\ codec.res.st = "ok" => codec.res.pos <= 5
    /\ codec.pc \in {"back", "decoded"} /\ codec.kind \in {"u64", "bytes"} =>
          \A i \in 33..U64_BITS : codec.back[i] = 0

\* the length prefix of the record value read, and whether the value is one of
\* an unknown record type that lies wholly in the bytes read
ValuePrefix == VarInt_decode(codec.bytes, 0)

UnknownTypeRead ==
    /\ codec.pc \in {"decoded", "reencoded"}
    /\ codec.ty \in RecordValueTypes
    /\ VarInt_as_i64(ValuePrefix.val) >= 2
    /\ ValuePrefix.pos + VarInt_as_i64(ValuePrefix.val) <= Len(codec.bytes)
    /\ codec.bytes[ValuePrefix.pos + 2]
          \notin {TOPIC_RECORD, PARITION_RECORD, FEATURE_LEVEL_RECORD}

\* C22: decoding a RecordValue of an unknown record_type yields an opaque value
\* holding exactly the `length` bytes after the length prefix, the cursor past
\* them, and re-encoding it gives back the original bytes, prefix included
C22_UnknownPreserved ==
    UnknownTypeRead =>
        /\ codec.res.st = "ok"
        /\ codec.res.val.variant = "Unknown"
        /\ "record" \in DOMAIN codec.res.val
        /\ codec.res.val.record
              = SubSeq(codec.bytes, ValuePrefix.pos + 1,
                       ValuePrefix.pos + VarInt_as_i64(ValuePrefix.val))
        /\ codec.res.pos = ValuePrefix.pos + VarInt_as_i64(ValuePrefix.val)
        /\ codec.pc = "reencoded" => codec.again = codec.bytes

\* C26: after RecordValue::decode (common_struct.rs) returns a value of any
\* variant, the cursor stands exactly `length` bytes past the length prefix
C26_CursorAfterValue ==
    (/\ codec.pc \in {"decoded", "reencoded"}
     /\ codec.ty = "common_struct::RecordValue"
     /\ codec.res.st = "ok") =>
        codec.res.pos = ValuePrefix.pos + VarInt_as_i64(ValuePrefix.val)

\* the bytes of the frames of the requests `reqs`: 4 + message_size each
RECURSIVE FramesLen(_)
FramesLen(reqs) ==
    IF reqs = <<>> THEN 0 ELSE 4 + reqs[1].message_size + FramesLen(Tail(reqs))

\* C23: after a request is parsed, the buffer has been advanced by exactly
\* 4 + message_size bytes for every request parsed so far: what the connection
\* has taken out of the bytes it received is the frames of its requests
C23_AdvancedByFrame ==
    \A c \in Conns :
        pc[c] = "execute_request" =>
            Len(Delivered(c)) - Len(buffer[c]) = FramesLen(served[c])

\* C24: a RequestMessage written by as_bytes is decoded by RequestMessage::decode
\* to the same header and body, the cursor at the end of the bytes written
C24_RequestRoundTrip ==
    codec.pc = "decoded" /\ codec.ty = "RequestMessage" =>
        /\ codec.res.st = "ok"
        /\ codec.res.val.header = codec.val.header
        /\ codec.res.val.body = codec.val.body
        /\ codec.res.pos = Len(codec.bytes)

\* the records of the controller log, in log order
LogRecords ==
    Concat([b \in 1..Len(metadataLog.record_batches) |->
               metadataLog.record_batches[b].records.items])

\* the partition ids of the partition records of topic `id`, in log order
PartitionIdsOf(id) ==
    LET records == SelectSeq(LogRecords,
                             LAMBDA r : /\ r.value.variant = "Partition"
                                        /\ r.value.record.topic_uuid = id)
    IN  [j \in 1..Len(records) |-> records[j].value.record.parition_id]

\* C25: after index initialisation every topic record has an entry under its
\* name with its UUID, no entry has an empty name or the nil UUID, and the
\* partitions of every entry are exactly the partition records of its topic, in
\* log order, in whichever batch they lie
C25_IndexMatchesLog ==
    indexInit = "ok" =>
        /\ \A i \in 1..Len(LogRecords) :
               LogRecords[i].value.variant = "Topic" =>
                   /\ LogRecords[i].value.record.name \in DOMAIN TOPIC_PARTITIONS
                   /\ TOPIC_PARTITIONS[LogRecords[i].value.record.name].id
                          = LogRecords[i].value.record.id
        /\ \A name \in DOMAIN TOPIC_PARTITIONS :
               /\ name # <<>>
               /\ TOPIC_PARTITIONS[name].id # Uuid_nil
               /\ [j \in 1..Len(TOPIC_PARTITIONS[name].partitions_array.items) |->
                       TOPIC_PARTITIONS[name].partitions_array.items[j].index]
                      = PartitionIdsOf(TOPIC_PARTITIONS[name].id)

RECURSIVE responses_in(_, _)
responses_in(buf, pos) ==
    IF ResponseMessage_decode(buf, pos, API_VERSIONS_API_INFO.api_key).st # "ok"
    THEN <<>>
    ELSE <<ResponseMessage_decode(buf, pos, API_VERSIONS_API_INFO.api_key).val>>
             \o responses_in(buf,
                    ResponseMessage_decode(buf, pos, API_VERSIONS_API_INFO.api_key).pos)

\* C28: the responses successive calls of read_response have returned are the
\* first responses of the bytes the peer sends, in the order received and each
\* once, and the bytes of the responses returned are gone from the buffer
C28_ResponsesConsumed ==
    \A c \in Conns :
        pc[c] = "response_returned" =>
            /\ Len(served[c]) <= Len(responses_in(Flatten(script[c]), 0))
            /\ served[c] = SubSeq(responses_in(Flatten(script[c]), 0), 1, Len(served[c]))
            /\ Len(Delivered(c)) - Len(buffer[c]) = FramesLen(served[c])

\* a COMPACT_STRING has been decoded from bytes that begin with the prefix
\* `prefix`
CompactStringRead(prefix) ==
    /\ codec.pc \in {"decoded", "reencoded"}
    /\ codec.ty = "CompactString"
    /\ codec.bytes = prefix

\* C29: decoding a COMPACT_STRING whose length prefix is 0 ends in a decode
\* error that is not the incomplete signal, and one whose length prefix is 1
\* gives the empty string with one byte consumed
C29_CompactStringLengths ==
    /\ CompactStringRead(<<0>>) => codec.res.st = "other"
    /\ CompactStringRead(<<1>>) => codec.res = Ok(<<>>, 1)

====
